---- MODULE Spec2Model ----
(***************************************************************************)
(* Model of the anomaly-detection application (src/APP): the pipeline      *)
(* controller, the feature extractor, the threshold detector, the          *)
(* in-memory store, the alert service with its auto-confirm timers and the *)
(* simulated data source with its generation loop.                         *)
(*                                                                         *)
(* Conventions                                                             *)
(*  - A Python str is a sequence of one-character strings ("180" is        *)
(*    <<"1","8","0">>), so that float(...) is modelled by what it parses.  *)
(*  - A Python float is an exact rational <<n, d>> with d > 0; double      *)
(*    rounding is not modelled.                                            *)
(*  - An Optional value is a sequence of length at most one (<<>> = None). *)
(*  - uuid4 identifiers are modelled as fresh consecutive integers.        *)
(*  - datetime.now() values (Alert.time_raised, the values of              *)
(*    confirmed_times) are not modelled; confirmed_times is its key set.   *)
(***************************************************************************)
EXTENDS Integers, Sequences, FiniteSets, TLC

(***************************************************************************)
(* Bounds of the model                                                     *)
(***************************************************************************)
MaxEvents == 1
MaxPipelineEvents == 2
MaxLiveEvents == 1
MaxAlerts == 2
MaxDialogs == 1
MaxUnknownCalls == 1
MaxGenerated == 2
MaxRegistrations == 2
MaxChunks == 1
MaxUnheard == 2
MaxSettingsEvents == 2
MaxLateAnomalies == 1

None == <<>>
Some(x) == <<x>>

(***************************************************************************)
(* Exact rationals <<n, d>>, d > 0                                         *)
(***************************************************************************)
Abs(x) == IF x < 0 THEN -x ELSE x

\* In the recursive operators below an intermediate result is bound as a
\* value (x \in {e}) so that it is computed once.
RECURSIVE Gcd(_, _)
Gcd(a, b) ==
    IF b = 0 THEN a ELSE CHOOSE g \in {Gcd(b, r) : r \in {a % b}} : TRUE

Rat(n, d) ==
    LET g == Gcd(Abs(n), Abs(d))
        s == IF d < 0 THEN -1 ELSE 1
    IN  <<(s * n) \div g, (s * d) \div g>>

\* a/d > c/b for d > 0, b > 0, without forming the cross products
RECURSIVE FracGt(_, _, _, _)
FracGt(a, d, c, b) ==
    LET qa == a \div d
        qc == c \div b
    IN  IF qa # qc THEN qa > qc
        ELSE CHOOSE gt \in
                { IF ra = 0 THEN FALSE
                  ELSE IF rc = 0 THEN TRUE
                  ELSE FracGt(b, rc, d, ra)
                  : ra \in {a % d}, rc \in {c % b} } : TRUE

RatGt(x, y) ==
    CHOOSE gt \in {FracGt(p[1], p[2], q[1], q[2]) : p \in {x}, q \in {y}} : TRUE
RatLt(x, y) == RatGt(y, x)
RatMul(x, y) == Rat(x[1] * y[1], x[2] * y[2])
RatDiv(x, y) == Rat(x[1] * y[2], x[2] * y[1])
RatInt(k) == <<k, 1>>

(***************************************************************************)
(* float(str): optional sign, digits, optional fraction; anything else     *)
(* raises ValueError (None).                                               *)
(***************************************************************************)
Digits == {"0", "1", "2", "3", "4", "5", "6", "7", "8", "9"}

DigitVal(c) ==
    CASE c = "0" -> 0 [] c = "1" -> 1 [] c = "2" -> 2 [] c = "3" -> 3
      [] c = "4" -> 4 [] c = "5" -> 5 [] c = "6" -> 6 [] c = "7" -> 7
      [] c = "8" -> 8 [] c = "9" -> 9

RECURSIVE DigitsVal(_)
DigitsVal(s) ==
    CHOOSE val \in
        { IF t = <<>> THEN 0
          ELSE DigitsVal(SubSeq(t, 1, Len(t) - 1)) * 10 + DigitVal(t[Len(t)])
          : t \in {s} } : TRUE

RECURSIVE Pow10(_)
Pow10(k) == IF k = 0 THEN 1 ELSE 10 * Pow10(k - 1)

AllDigits(s) == \A i \in 1..Len(s) : s[i] \in Digits

\* variant: the fraction is ignored
ParseFloat_IntegerPart(str) ==
    LET neg  == Len(str) > 0 /\ str[1] = "-"
        sgn  == Len(str) > 0 /\ str[1] \in {"-", "+"}
        body == IF sgn THEN SubSeq(str, 2, Len(str)) ELSE str
        dots == {i \in 1..Len(body) : body[i] = "."}
        ip   == IF dots = {} THEN body
                ELSE SubSeq(body, 1, (CHOOSE i \in dots : TRUE) - 1)
    IN  IF AllDigits(ip) /\ Len(ip) > 0
        THEN Some(RatInt(IF neg THEN -DigitsVal(ip) ELSE DigitsVal(ip)))
        ELSE None

ParseFloat(str) ==
    LET neg  == Len(str) > 0 /\ str[1] = "-"
        sgn  == Len(str) > 0 /\ str[1] \in {"-", "+"}
        body == IF sgn THEN SubSeq(str, 2, Len(str)) ELSE str
        dots == {i \in 1..Len(body) : body[i] = "."}
        ip   == IF dots = {} THEN body
                ELSE SubSeq(body, 1, (CHOOSE i \in dots : TRUE) - 1)
        fp   == IF dots = {} THEN <<>>
                ELSE SubSeq(body, (CHOOSE i \in dots : TRUE) + 1, Len(body))
        ok   == /\ Cardinality(dots) <= 1
                /\ AllDigits(ip) /\ AllDigits(fp)
                /\ Len(ip) + Len(fp) > 0
        mag  == DigitsVal(ip) * Pow10(Len(fp)) + DigitsVal(fp)
    IN  IF ok THEN Some(Rat(IF neg THEN -mag ELSE mag, Pow10(Len(fp))))
        ELSE None

(***************************************************************************)
(* models.py: records                                                      *)
(***************************************************************************)
EmptyStr == <<>>

\* dict.get(key, default)
DictGet(d, key, default) == IF key \in DOMAIN d THEN d[key] ELSE default

RawData(id, timestamp, attributes) ==
    [id |-> id, timestamp |-> timestamp, attributes |-> attributes]

PreparedData(id, timestamp, data_type, features) ==
    [id |-> id, timestamp |-> timestamp, data_type |-> data_type,
     features |-> features]

Anomaly(anomaly_id, data_id, detection_time, score, description, severity) ==
    [anomaly_id |-> anomaly_id, data_id |-> data_id,
     detection_time |-> detection_time, score |-> score,
     description |-> description, severity |-> severity]

Alert(anomaly_id, status) == [anomaly_id |-> anomaly_id, status |-> status]

DetectionSettings(user_id, sensitivity, monitored_sources) ==
    [user_id |-> user_id, sensitivity |-> sensitivity,
     monitored_sources |-> monitored_sources]

(***************************************************************************)
(* controllers.py: AnomalyController.preprocess_data                       *)
(* Returns None when the code raises ValueError.                           *)
(***************************************************************************)
\* variant: an unknown type falls through to the sensor branch
preprocess_data_UnknownAsSensor(raw_data) ==
    LET parsed == ParseFloat(DictGet(raw_data.attributes, "temperature", <<"0">>))
    IN  IF parsed = None THEN None
        ELSE Some(PreparedData(raw_data.id, raw_data.timestamp, "sensor",
                               <<parsed[1]>>))

preprocess_data(raw_data) ==
    LET attrs     == raw_data.attributes
        data_type == DictGet(attrs, "type", EmptyStr)
        field     == CASE data_type = <<"1">> -> "temperature"
                       [] data_type = <<"2">> -> "time_of_day"
                       [] data_type = <<"3">> -> "volume"
                       [] OTHER -> "none"
        type_str  == CASE data_type = <<"1">> -> "sensor"
                       [] data_type = <<"2">> -> "transaction"
                       [] data_type = <<"3">> -> "traffic"
                       [] OTHER -> ""
        parsed    == CHOOSE val \in
                        { ParseFloat(str)
                          : str \in {DictGet(attrs, field, <<"0">>)} } : TRUE
    IN  IF type_str = "" THEN None
        ELSE IF parsed = None THEN None
        ELSE Some(PreparedData(raw_data.id, raw_data.timestamp, type_str,
                               <<parsed[1]>>))

(***************************************************************************)
(* detectors.py: SimpleAnomalyDetector                                     *)
(***************************************************************************)
DefaultGlobalSensitivity == <<1, 2>>
\* line 24: range(20)
TrainIterations == 20

\* variant: (1.2 - s) * k
Threshold_Shifted(s, k) == <<(12 * s[2] - 10 * s[1]) * (k \div 10), s[2]>>

\* (1.1 - s) * k
Threshold(s, k) == <<(11 * s[2] - 10 * s[1]) * (k \div 10), s[2]>>
\* variant: lower = 10 s
TxLower_Ten(s) == <<10 * s[1], s[2]>>

TxLower(s) == <<8 * s[1], s[2]>>

TxUpper(s) == <<22 * s[1] + (s[2] - 2 * s[1]), s[2]>>

\* (num / den) * 100 > 100, den # 0
RatioOver100(num, den) ==
    IF RatGt(den, RatInt(0)) THEN RatGt(num, den) ELSE RatLt(num, den)

\* variant: `if settings.sensitivity` (0.0 counts as absent)
EffectiveSensitivity_Truthy(settings, global_sensitivity) ==
    IF settings.sensitivity # None /\ settings.sensitivity[1][1] # 0
    THEN settings.sensitivity[1]
    ELSE global_sensitivity

EffectiveSensitivity(settings, global_sensitivity) ==
    IF settings.sensitivity # None THEN settings.sensitivity[1]
    ELSE global_sensitivity

\* truth value of detect(data, settings)
detect_flags(data, settings, global_sensitivity) ==
    LET s == EffectiveSensitivity(settings, global_sensitivity)
        v == data.features[1]
    IN  CASE data.data_type = "sensor" -> RatGt(v, Threshold(s, 150))
          [] data.data_type = "traffic" -> RatGt(v, Threshold(s, 1000))
          [] data.data_type = "transaction" ->
                IF RatLt(v, TxLower(s))
                THEN IF RatGt(v, RatInt(0)) THEN RatioOver100(TxLower(s), v)
                     ELSE TRUE
                ELSE IF RatGt(v, TxUpper(s)) THEN RatioOver100(v, TxUpper(s))
                ELSE FALSE
          [] OTHER -> FALSE

\* variant: the ratio is not scaled to a percentage
Score_Fraction(num, den) == RatDiv(num, den)

\* (num / den) * 100
Score(num, den) == RatMul(RatDiv(num, den), RatInt(100))

\* variant: 150 is already high
Severity_Inclusive(score) ==
    IF RatLt(score, RatInt(150)) THEN "medium" ELSE "high"

Severity(score) == IF RatGt(score, RatInt(150)) THEN "high" ELSE "medium"

\* variant: the anomaly does not carry the id of the record
detect_NoDataId(data, settings, global_sensitivity, new_id) ==
    IF detect_flags(data, settings, global_sensitivity)
    THEN Some(Anomaly(new_id, 0, data.timestamp, RatInt(200), <<"sensor", ":">>,
                      "high"))
    ELSE None

detect(data, settings, global_sensitivity, new_id) ==
    LET s == EffectiveSensitivity(settings, global_sensitivity)
        v == data.features[1]
        score == CASE data.data_type = "sensor" -> Score(v, Threshold(s, 150))
                   [] data.data_type = "traffic" -> Score(v, Threshold(s, 1000))
                   [] OTHER ->
                        IF RatLt(v, TxLower(s))
                        THEN IF RatGt(v, RatInt(0)) THEN Score(TxLower(s), v)
                             ELSE RatInt(200)
                        ELSE Score(v, TxUpper(s))
        desc == CASE data.data_type = "sensor" ->
                        <<"sensor", ":", " Temperature exceeds threshold">>
                  [] data.data_type = "traffic" ->
                        <<"traffic", ":", " Volume exceeds threshold">>
                  [] OTHER ->
                        IF RatLt(v, TxLower(s))
                        THEN <<"transaction", ":", " Time below lower bound">>
                        ELSE <<"transaction", ":", " Time above upper bound">>
    IN  IF detect_flags(data, settings, global_sensitivity)
        THEN Some(Anomaly(new_id, data.id, data.timestamp, score, desc,
                          Severity(score)))
        ELSE None

count_anomalies(historical_data, s) ==
    Cardinality({i \in 1..Len(historical_data) :
        detect_flags(historical_data[i],
                     DetectionSettings("default_user", Some(s), <<"any">>),
                     DefaultGlobalSensitivity)})

\* (low + high) / 2 for dyadic low, high (not reduced)
Mid(low, high) ==
    LET D == IF low[2] > high[2] THEN low[2] ELSE high[2]
    IN  <<low[1] * (D \div low[2]) + high[1] * (D \div high[2]), 2 * D>>

\* variant: the search returns its upper bound
RECURSIVE BinarySearch_ReturnsHigh(_, _, _, _, _)
BinarySearch_ReturnsHigh(historical_data, target, low, high, iters) ==
    IF iters = 0 THEN Rat(high[1], high[2])
    ELSE CHOOSE result \in
            { IF count_anomalies(historical_data, mid) < target
              THEN BinarySearch_ReturnsHigh(historical_data, target, low, mid,
                                            iters - 1)
              ELSE BinarySearch_ReturnsHigh(historical_data, target, mid, high,
                                            iters - 1)
              : mid \in {Mid(low, high)} } : TRUE

\* the loop of train_model; each midpoint is bound as a value (mid \in {...})
\* so that it is computed once per iteration
RECURSIVE BinarySearch(_, _, _, _, _)
BinarySearch(historical_data, target, low, high, iters) ==
    IF iters = 0 THEN Rat(low[1], low[2])
    ELSE CHOOSE result \in
            { IF count_anomalies(historical_data, mid) < target
              THEN BinarySearch(historical_data, target, low, mid, iters - 1)
              ELSE BinarySearch(historical_data, target, mid, high, iters - 1)
              : mid \in {Mid(low, high)} } : TRUE

\* variant: the global sensitivity moves at most 1/4 towards the search result
train_model_Damped(historical_data, global_sensitivity) ==
    CHOOSE result \in
        { IF data = <<>> THEN global_sensitivity
          ELSE LET found == BinarySearch(data, Len(data) \div 2, RatInt(0),
                                         RatInt(1), TrainIterations)
                   step == <<4 * global_sensitivity[1] + global_sensitivity[2],
                             4 * global_sensitivity[2]>>
               IN  IF RatGt(found, step) THEN step ELSE found
          : data \in {historical_data} } : TRUE

\* the global sensitivity after train_model(historical_data)
train_model(historical_data, global_sensitivity) ==
    CHOOSE result \in
        { IF data = <<>> THEN global_sensitivity
          ELSE BinarySearch(data, Len(data) \div 2, RatInt(0), RatInt(1),
                            TrainIterations)
          : data \in {historical_data} } : TRUE

(***************************************************************************)
(* data_storage.py: InMemoryDataStorage queries                            *)
(***************************************************************************)
TimeMin == -1
TimeMax == 1000000

\* variant: a role that is not in the map sees the sensor category
RoleCategory_DefaultSensor(role) ==
    CASE role = "security" -> <<"traffic">>
      [] role = "equipment" -> <<"sensor">>
      [] role = "fraud" -> <<"transaction">>
      [] OTHER -> <<"sensor">>

\* role_map.get(role): a sequence of length at most one
RoleCategory(role) ==
    CASE role = "security" -> <<"traffic">>
      [] role = "equipment" -> <<"sensor">>
      [] role = "fraud" -> <<"transaction">>
      [] OTHER -> <<>>

StartsWith(str, prefix) ==
    /\ Len(str) >= Len(prefix)
    /\ SubSeq(str, 1, Len(prefix)) = prefix

\* variant: no category filter
get_anomalies_AllCategories(store, role, start_time, end_time) ==
    LET Keep(a) == /\ start_time <= a.detection_time
                   /\ a.detection_time <= end_time
    IN  SelectSeq(store, Keep)

get_anomalies(store, role, start_time, end_time) ==
    LET allowed == RoleCategory(role) \o <<":">>
        Keep(a) == /\ StartsWith(a.description, allowed)
                   /\ start_time <= a.detection_time
                   /\ a.detection_time <= end_time
    IN  SelectSeq(store, Keep)

\* data_storage.py:39-40: the first stored anomaly with the id, or None
get_anomaly(store, anomaly_id) ==
    LET hits == {i \in 1..Len(store) : store[i].anomaly_id = anomaly_id}
    IN  IF hits = {} THEN None
        ELSE Some(store[CHOOSE i \in hits : \A j \in hits : i <= j])

get_historical_data(store, start_time, end_time) ==
    LET Keep(d) == start_time <= d.timestamp /\ d.timestamp <= end_time
    IN  SelectSeq(store, Keep)

\* app.py: AnomalyDetectionApp.filter_by_role
filter_by_role(role, data_type) == <<data_type>> = RoleCategory(role)

(***************************************************************************)
(* repositories.py: JsonSettingsRepository.load_settings                   *)
(***************************************************************************)
\* variant: the default carries no sensitivity
load_settings_NoDefaultSensitivity(dict, user_id) ==
    LET data == DictGet(dict, user_id,
                        [sensitivity |-> None,
                         monitored_sources |-> <<"any">>])
    IN  DetectionSettings(user_id, data.sensitivity, data.monitored_sources)

load_settings(dict, user_id) ==
    LET data == DictGet(dict, user_id,
                        [sensitivity |-> Some(<<1, 2>>),
                         monitored_sources |-> <<"any">>])
    IN  DetectionSettings(user_id, data.sensitivity, data.monitored_sources)

\* variant: the sensitivity is clamped into [0, 1] before it is stored
save_settings_Clamped(dict, settings) ==
    LET sens == settings.sensitivity
        clamped == IF sens = None THEN None
                   ELSE IF RatLt(sens[1], RatInt(0)) THEN Some(RatInt(0))
                   ELSE IF RatGt(sens[1], RatInt(1)) THEN Some(RatInt(1))
                   ELSE sens
    IN  [u \in DOMAIN dict \cup {settings.user_id} |->
            IF u = settings.user_id
            THEN [sensitivity |-> clamped,
                  monitored_sources |-> settings.monitored_sources]
            ELSE dict[u]]

\* repositories.py:20-23: settings_dict after save_settings(settings)
save_settings(dict, settings) ==
    [u \in DOMAIN dict \cup {settings.user_id} |->
        IF u = settings.user_id
        THEN [sensitivity |-> settings.sensitivity,
              monitored_sources |-> settings.monitored_sources]
        ELSE dict[u]]

\* repositories.py:24-25: the JSON document json.dump writes; a float is
\* written as a number (repr, read back exactly), None as null, the list as
\* an array
json_dump(dict) ==
    [u \in DOMAIN dict |->
        [sensitivity |-> IF dict[u].sensitivity = None THEN <<"null">>
                         ELSE <<"number", dict[u].sensitivity[1]>>,
         monitored_sources |-> <<"array", dict[u].monitored_sources>>]]

\* history record of a call on the repository: for load_settings the
\* settings returned, for save_settings the settings passed
RepoCall(op, user_id, settings, before, after) ==
    [op |-> op, user_id |-> user_id, settings |-> settings,
     before |-> before, after |-> after]


(***************************************************************************)
(* State                                                                   *)
(***************************************************************************)
VARIABLES
    auto_confirm_timeout,  \* GuiAlertService.auto_confirm_timeout (Optional)
    alerts,                \* GuiAlertService.alerts: alert id -> Alert
    confirmed_times,       \* keys of GuiAlertService.confirmed_times
    timer,                 \* alert id -> position of its auto_confirm thread
    gui,                   \* position of the GUI (main) thread
    dialogs,               \* open AnomalyConfirmationDialog objects
    pipe,                  \* position of the thread in process_new_raw_data
    handed,                \* history: the events handed to process_new_raw_data
    raw_data,              \* InMemoryDataStorage.raw_data
    prepared_data,         \* InMemoryDataStorage.prepared_data
    anomalies,             \* InMemoryDataStorage.anomalies
    settings_dict,         \* JsonSettingsRepository.settings_dict
    global_sensitivity,    \* SimpleAnomalyDetector.global_sensitivity
    user,                  \* AnomalyDetectionApp.current_user
    manual,                \* history: alerts a manual transition was applied to
    unknown_calls,         \* history: update_alert_status calls with unknown id
    overlap,               \* history: alert id -> the statuses of the
                           \* update_alert_status executions now overlapping
    listener,              \* SimulatedDataSource.listener (Optional)
    running,               \* SimulatedDataSource.running
    current_timestamp,     \* SimulatedDataSource.current_timestamp, in hours
                           \* since 2025-01-01 00:00
    generated_count,       \* SimulatedDataSource.generated_count
    loop,                  \* position and locals of the generate_loop thread
    chunk,                 \* position and locals of the thread that calls
                           \* get_next_data_chunk
    produced,              \* history: the events returned by generate_one_data
    delivered,             \* history: the listener calls made by the loop
    dropped,               \* history: ids of the events the loop found no
                           \* listener for (line 31)
    registrations,         \* history: the callbacks registered, in order
    probe,                 \* the last two direct calls of detect, with results
    training,              \* the last two direct calls of train_model or
                           \* update_global_sensitivity, with the global
                           \* sensitivity before and after
    settings_file,         \* the content of settings.json (Optional)
    repo_calls             \* history: the last calls of load_settings and
                           \* save_settings made by the settings view or by
                           \* a direct caller

alertVars == <<auto_confirm_timeout, alerts, confirmed_times, timer>>
storeVars == <<raw_data, prepared_data, anomalies>>
repoVars == <<settings_file, repo_calls>>
sourceVars == <<listener, running, current_timestamp, generated_count, loop,
                chunk, produced, delivered, dropped, registrations>>
appVars == <<alertVars, gui, dialogs, pipe, handed, storeVars, settings_dict,
             global_sensitivity, user, manual, unknown_calls, overlap>>
vars == <<auto_confirm_timeout, alerts, confirmed_times, timer, gui, dialogs,
          pipe, handed, raw_data, prepared_data, anomalies, settings_dict,
          global_sensitivity, user, manual, unknown_calls, overlap,
          listener, running, current_timestamp, generated_count, loop, chunk,
          produced, delivered, dropped, registrations, probe, training,
          settings_file, repo_calls>>

(***************************************************************************)
(* Inputs                                                                  *)
(***************************************************************************)
\* app.py: the hardcoded users (user_id = username)
Users == { [user_id |-> "analyst", role |-> "security"],
           [user_id |-> "specialist", role |-> "equipment"],
           [user_id |-> "manager", role |-> "fraud"] }

\* constructor arguments of GuiAlertService (app.py passes 120)
TimeoutValues == { None, Some(0), Some(120) }

T(type) == [k \in {"type"} |-> type]
TA(type, key, val) == [k \in {"type", key} |-> IF k = "type" THEN type ELSE val]

\* attribute maps handed to process_new_raw_data
RawInputs ==
    { TA(<<"1">>, "temperature", <<"1", "8", "0">>),       \* above 90
      TA(<<"1">>, "temperature", <<"4", "5", ".", "5">>),  \* normal
      TA(<<"1">>, "temperature", <<"a", "b", "c">>),       \* unparseable
      T(<<"1">>),                                          \* missing
      TA(<<"2">>, "time_of_day", <<"2">>),                 \* below 4
      T(<<"2">>),                                          \* missing
      TA(<<"3">>, "volume", <<"7", "0", "0">>),            \* above 600
      TA(<<"3">>, "volume", <<"1", "2", ",", "5">>),       \* unparseable
      T(<<"3">>),                                          \* missing
      T(<<"4">>),                                          \* unknown type
      [k \in {"volume"} |-> <<"7", "0", "0">>] }           \* no type

\* the inputs of the alert-lifecycle specification: one anomalous event per
\* category and a normal one
AlertInputs ==
    { TA(<<"1">>, "temperature", <<"1", "8", "0">>),
      TA(<<"1">>, "temperature", <<"4", "5", ".", "5">>),
      TA(<<"2">>, "time_of_day", <<"2">>),
      TA(<<"3">>, "volume", <<"7", "0", "0">>) }

UnknownAlertId == 0

(***************************************************************************)
(* alert_service.py: GuiAlertService                                       *)
(***************************************************************************)
\* variant: tests `is not None` instead of truthiness and > 0
AutoConfirmEnabled_NotNoneOnly(timeout) == timeout # None

AutoConfirmEnabled(timeout) ==
    /\ timeout # None
    /\ timeout[1] # 0
    /\ timeout[1] > 0

\* variant: the generated id collides with the latest alert's
NewAlertId_Reuse(als) ==
    IF DOMAIN als = {} THEN 1 ELSE Cardinality(DOMAIN als)

\* str(uuid.uuid4()): an id no alert has yet
NewAlertId(als) == Cardinality(DOMAIN als) + 1

\* send_alert: the alert map after the call
send_alert(als, anomaly) ==
    LET alert_id == NewAlertId(als)
    IN  [a \in DOMAIN als \cup {alert_id} |->
            IF a = alert_id THEN Alert(anomaly.anomaly_id, "open") ELSE als[a]]

\* send_alert: the timer threads after the call
send_alert_timers(tm, als, timeout) ==
    LET alert_id == NewAlertId(als)
    IN  IF AutoConfirmEnabled(timeout)
        THEN [a \in DOMAIN tm \cup {alert_id} |->
                IF a = alert_id THEN "sleep" ELSE tm[a]]
        ELSE tm

\* alert_service.py:78-79
get_alerts(als) ==
    { [alert_id |-> a, anomaly_id |-> als[a].anomaly_id,
       status |-> als[a].status] : a \in DOMAIN als }

\* variant: no membership test, the entry is created
update_status_NoMembershipTest(als, alert_id, new_status) ==
    [a \in DOMAIN als \cup {alert_id} |->
        IF a = alert_id
        THEN Alert(IF a \in DOMAIN als THEN als[a].anomaly_id ELSE 0, new_status)
        ELSE als[a]]

\* update_alert_status, lines 62-63
update_status(als, alert_id, new_status) ==
    IF alert_id \in DOMAIN als
    THEN [als EXCEPT ![alert_id].status = new_status]
    ELSE als

\* update_alert_status, lines 64-67
update_confirmed_times(times, alert_id, new_status) ==
    IF new_status = "confirmed" THEN times \cup {alert_id}
    ELSE times \ {alert_id}

\* next((al for al in get_alerts() if al.anomaly_id == anomaly_id), None)
find_alert(als, anomaly_id) ==
    LET hits == {a \in DOMAIN als : als[a].anomaly_id = anomaly_id}
    IN  IF hits = {} THEN None
        ELSE Some(CHOOSE a \in hits : \A b \in hits : a <= b)

\* history of overlapping update_alert_status executions
InFallback(a) == a \in DOMAIN timer /\ timer[a] = "fallback"

\* the manual statuses that overlap the timer's 'confirmed'; from the second
\* one on only "many" is recorded
Joined(ov, a, new_status) ==
    [x \in DOMAIN ov \cup {a} |->
        IF x # a THEN ov[x]
        ELSE IF a \in DOMAIN ov THEN <<"many">> ELSE <<new_status>>]

Dropped(ov, a) == [x \in DOMAIN ov \ {a} |-> ov[x]]

GuiIdle == [pc |-> "idle", id |-> 0, new_status |-> "", origin |-> "",
            dlg |-> None, s |-> None]

(***************************************************************************)
(* data_sources.py: SimulatedDataSource                                    *)
(***************************************************************************)
GenerationCap == 300

\* callbacks other than the controller's: they return or raise
Listeners == {"A", "B"}

\* app.py:98 registers anomaly_controller.process_new_raw_data
ControllerListener == "process_new_raw_data"

\* variant: the first registration stays
register_data_listener_KeepFirst(old, callback) ==
    IF old = None THEN Some(callback) ELSE old

\* the value of self.listener after register_data_listener(callback)
register_data_listener(old, callback) == Some(callback)

\* variant: the cap is tested with <=
LoopCondition_Inclusive(run, count) == run /\ count <= GenerationCap

\* line 29: while self.running and self.generated_count < 300
LoopCondition(run, count) == run /\ count < GenerationCap

LoopNotStarted ==
    [pc |-> "not_started", timestamp |-> 0, tmp |-> 0, attributes |-> << >>,
     raw |-> None, callee |-> None]

ChunkIdle ==
    [pc |-> "idle", timestamp |-> 0, tmp |-> 0, attributes |-> << >>,
     calls |-> 0]

\* history record of an event returned by generate_one_data: the thread that
\* produced it, and the listener state when it was returned
Produced(id, timestamp, by, heard, registered) ==
    [id |-> id, timestamp |-> timestamp, by |-> by, heard |-> heard,
     registered |-> registered]

(***************************************************************************)
(* Init: the state after login (setup_dependencies)                        *)
(***************************************************************************)
Init ==
    /\ auto_confirm_timeout \in TimeoutValues
    /\ alerts = << >>
    /\ confirmed_times = {}
    /\ timer = << >>
    /\ gui = GuiIdle
    /\ dialogs = {}
    /\ pipe = [pc |-> "idle", raw |-> None, prepared |-> None, anomaly |-> None]
    /\ handed = << >>
    /\ raw_data = << >>
    /\ prepared_data = << >>
    /\ anomalies = << >>
    /\ settings_dict = << >>
    /\ global_sensitivity = DefaultGlobalSensitivity
    /\ user \in Users
    /\ manual = {}
    /\ unknown_calls = 0
    /\ overlap = << >>
    /\ listener = None
    /\ running = FALSE
    /\ current_timestamp = 0
    /\ generated_count = 0
    /\ loop = LoopNotStarted
    /\ chunk = ChunkIdle
    /\ produced = << >>
    /\ delivered = << >>
    /\ dropped = {}
    /\ registrations = << >>
    /\ probe = << >>
    /\ training = << >>
    /\ settings_file = None
    /\ repo_calls = << >>

(***************************************************************************)
(* controllers.py: AnomalyController.process_new_raw_data, step by step,   *)
(* in the thread that calls the listener                                   *)
(***************************************************************************)
PipeAt(pc) == pipe.pc = pc

\* line 27: prepared = self.preprocess_data(raw_data); ValueError propagates
ProcessNewRawData(attrs, max) ==
    /\ PipeAt("idle")
    /\ Len(handed) < max
    /\ LET raw == RawData(Len(handed) + 1, Len(handed), attrs)
           prepared == preprocess_data(raw)
       IN  /\ pipe' = IF prepared = None
                   THEN [pipe EXCEPT !.pc = "raised"]
                   ELSE [pipe EXCEPT !.pc = "store_raw", !.raw = Some(raw),
                                     !.prepared = prepared]
           /\ handed' = Append(handed, raw)
    /\ UNCHANGED <<alertVars, gui, dialogs, storeVars, settings_dict,
                   global_sensitivity, user, manual, unknown_calls, overlap,
                   sourceVars, probe, training, repoVars>>

\* line 28
StoreRawData ==
    /\ PipeAt("store_raw")
    /\ raw_data' = Append(raw_data, pipe.raw[1])
    /\ pipe' = [pipe EXCEPT !.pc = "store_prepared", !.raw = None]
    /\ UNCHANGED <<alertVars, gui, dialogs, handed, prepared_data, anomalies,
                   settings_dict, global_sensitivity, user, manual,
                   unknown_calls, overlap,
                   sourceVars, probe, training, repoVars>>

\* line 29
StorePreparedData ==
    /\ PipeAt("store_prepared")
    /\ prepared_data' = Append(prepared_data, pipe.prepared[1])
    /\ pipe' = [pipe EXCEPT !.pc = "detect"]
    /\ UNCHANGED <<alertVars, gui, dialogs, handed, raw_data, anomalies,
                   settings_dict, global_sensitivity, user, manual,
                   unknown_calls, overlap,
                   sourceVars, probe, training, repoVars>>

\* variant: the settings are not read, the default ones are used
Detect_DefaultSettings ==
    /\ PipeAt("detect")
    /\ LET settings == load_settings(<< >>, user.user_id)
           anomaly == detect(pipe.prepared[1], settings, global_sensitivity,
                             Len(anomalies) + 1)
       IN  pipe' = IF anomaly = None
                   THEN [pipe EXCEPT !.pc = "idle", !.prepared = None]
                   ELSE [pipe EXCEPT !.pc = "store_anomaly",
                                     !.prepared = None, !.anomaly = anomaly]
    /\ UNCHANGED <<alertVars, gui, dialogs, handed, storeVars, settings_dict,
                   global_sensitivity, user, manual, unknown_calls, overlap,
                   sourceVars, probe, training, repoVars>>

\* lines 31-34
Detect ==
    /\ PipeAt("detect")
    /\ LET settings == load_settings(settings_dict, user.user_id)
           anomaly == detect(pipe.prepared[1], settings, global_sensitivity,
                             Len(anomalies) + 1)
       IN  pipe' = IF anomaly = None
                   THEN [pipe EXCEPT !.pc = "idle", !.prepared = None]
                   ELSE [pipe EXCEPT !.pc = "store_anomaly",
                                     !.prepared = None, !.anomaly = anomaly]
    /\ UNCHANGED <<alertVars, gui, dialogs, handed, storeVars, settings_dict,
                   global_sensitivity, user, manual, unknown_calls, overlap,
                   sourceVars, probe, training, repoVars>>

\* variant: the anomaly is not stored before the alert is raised
StoreAnomaly_Skipped ==
    /\ PipeAt("store_anomaly")
    /\ pipe' = [pipe EXCEPT !.pc = "send_alert"]
    /\ UNCHANGED <<alertVars, gui, dialogs, handed, storeVars,
                   settings_dict, global_sensitivity, user, manual,
                   unknown_calls, overlap,
                   sourceVars, probe, training, repoVars>>

\* line 35
StoreAnomaly ==
    /\ PipeAt("store_anomaly")
    /\ anomalies' = Append(anomalies, pipe.anomaly[1])
    /\ pipe' = [pipe EXCEPT !.pc = "send_alert"]
    /\ UNCHANGED <<alertVars, gui, dialogs, handed, raw_data, prepared_data,
                   settings_dict, global_sensitivity, user, manual,
                   unknown_calls, overlap,
                   sourceVars, probe, training, repoVars>>

\* line 36
SendAlert ==
    /\ PipeAt("send_alert")
    /\ Cardinality(DOMAIN alerts) + (IF gui.pc = "dialog_send" THEN 1 ELSE 0)
            < MaxAlerts
    /\ alerts' = send_alert(alerts, pipe.anomaly[1])
    /\ timer' = send_alert_timers(timer, alerts, auto_confirm_timeout)
    /\ pipe' = [pipe EXCEPT !.pc = "idle", !.anomaly = None]
    /\ UNCHANGED <<auto_confirm_timeout, confirmed_times, gui, dialogs, handed,
                   storeVars, settings_dict, global_sensitivity, user, manual,
                   unknown_calls, overlap,
                   sourceVars, probe, training, repoVars>>


(***************************************************************************)
(* alert_service.py: GuiAlertService.auto_confirm, one thread per alert    *)
(***************************************************************************)
\* variant: the status test never succeeds
TimerWake_NeverOpen(a) ==
    /\ a \in DOMAIN timer
    /\ timer[a] = "sleep"
    /\ timer' = [timer EXCEPT ![a] = "done"]
    /\ UNCHANGED <<auto_confirm_timeout, alerts, confirmed_times, gui, dialogs,
                   pipe, handed, storeVars, settings_dict, global_sensitivity,
                   user, manual, unknown_calls, overlap,
                   sourceVars, probe, training, repoVars>>

\* lines 47-48: the sleep ends and the thread reads the alert's status
TimerWake(a) ==
    /\ a \in DOMAIN timer
    /\ timer[a] = "sleep"
    /\ timer' = [timer EXCEPT ![a] =
                    IF a \in DOMAIN alerts /\ alerts[a].status = "open"
                    THEN "checked" ELSE "done"]
    /\ UNCHANGED <<auto_confirm_timeout, alerts, confirmed_times, gui, dialogs,
                   pipe, handed, storeVars, settings_dict, global_sensitivity,
                   user, manual, unknown_calls, overlap,
                   sourceVars, probe, training, repoVars>>

\* line 52: self.app.after(0, do_confirm) returns; do_confirm is queued for
\* the GUI thread
TimerSchedule(a) ==
    /\ a \in DOMAIN timer
    /\ timer[a] = "checked"
    /\ timer' = [timer EXCEPT ![a] = "queued"]
    /\ UNCHANGED <<auto_confirm_timeout, alerts, confirmed_times, gui, dialogs,
                   pipe, handed, storeVars, settings_dict, global_sensitivity,
                   user, manual, unknown_calls, overlap,
                   sourceVars, probe, training, repoVars>>

\* lines 53-55: self.app.after raised; do_confirm runs in the timer thread
\* and executes update_alert_status lines 62-63
TimerFallback(a) ==
    /\ a \in DOMAIN timer
    /\ timer[a] = "checked"
    /\ alerts' = update_status(alerts, a, "confirmed")
    /\ timer' = [timer EXCEPT ![a] = "fallback"]
    /\ overlap' = IF gui.pc = "update" /\ gui.id = a
                  THEN Joined(overlap, a, gui.new_status) ELSE overlap
    /\ UNCHANGED <<auto_confirm_timeout, confirmed_times, gui, dialogs, pipe,
                   handed, storeVars, settings_dict, global_sensitivity, user,
                   manual, unknown_calls,
                   sourceVars, probe, training, repoVars>>

\* update_alert_status lines 64-67 in the timer thread
TimerFallbackFinish(a) ==
    /\ a \in DOMAIN timer
    /\ timer[a] = "fallback"
    /\ confirmed_times' = update_confirmed_times(confirmed_times, a, "confirmed")
    /\ timer' = [timer EXCEPT ![a] = "done"]
    /\ overlap' = IF gui.pc = "update" /\ gui.id = a
                  THEN overlap ELSE Dropped(overlap, a)
    /\ UNCHANGED <<auto_confirm_timeout, alerts, gui, dialogs, pipe, handed,
                   storeVars, settings_dict, global_sensitivity, user, manual,
                   unknown_calls,
                   sourceVars, probe, training, repoVars>>

(***************************************************************************)
(* The GUI thread: one handler at a time                                   *)
(***************************************************************************)
GuiAt(pc) == gui.pc = pc

Dialog(anomaly_id, alert_id, als) ==
    [anomaly_id |-> anomaly_id, alert_id |-> alert_id,
     confirm_disabled |-> (als[alert_id].status = "confirmed")]

\* the anomalies the Dashboard offers (views.py:281)
Offered == get_anomalies(anomalies, user.role, TimeMin, TimeMax)

\* views.py:13-19 AnomalyConfirmationDialog.__init__ up to the lookup
DialogOpen(i) ==
    /\ GuiAt("idle")
    /\ Cardinality(dialogs) < MaxDialogs
    /\ i \in 1..Len(Offered)
    /\ LET anomaly == Offered[i]
           found == find_alert(alerts, anomaly.anomaly_id)
       IN  IF found = None
           THEN /\ Cardinality(DOMAIN alerts) < MaxAlerts
                /\ gui' = [GuiIdle EXCEPT !.pc = "dialog_send",
                                          !.id = anomaly.anomaly_id]
                /\ UNCHANGED dialogs
           ELSE /\ dialogs' = dialogs \cup
                        {Dialog(anomaly.anomaly_id, found[1], alerts)}
                /\ UNCHANGED gui
    /\ UNCHANGED <<alertVars, pipe, handed, storeVars, settings_dict,
                   global_sensitivity, user, manual, unknown_calls, overlap,
                   sourceVars, probe, training, repoVars>>

\* views.py:20-27: no alert was found, the dialog raises one and looks again
DialogSendAlert ==
    /\ GuiAt("dialog_send")
    /\ LET anomaly == [anomaly_id |-> gui.id]
           als == send_alert(alerts, anomaly)
       IN  /\ alerts' = als
           /\ dialogs' = dialogs \cup
                {Dialog(gui.id, find_alert(als, gui.id)[1], als)}
    /\ timer' = send_alert_timers(timer, alerts, auto_confirm_timeout)
    /\ gui' = GuiIdle
    /\ UNCHANGED <<auto_confirm_timeout, confirmed_times, pipe, handed,
                   storeVars, settings_dict, global_sensitivity, user, manual,
                   unknown_calls, overlap,
                   sourceVars, probe, training, repoVars>>

\* the Close button
DialogClose(d) ==
    /\ GuiAt("idle")
    /\ d \in dialogs
    /\ dialogs' = dialogs \ {d}
    /\ UNCHANGED <<alertVars, gui, pipe, handed, storeVars, settings_dict,
                   global_sensitivity, user, manual, unknown_calls, overlap,
                   sourceVars, probe, training, repoVars>>

\* a manual caller enters update_alert_status and executes lines 62-63
ManualUpdate(alert_id, new_status, origin, dlg) ==
    /\ alerts' = update_status(alerts, alert_id, new_status)
    /\ IF alert_id \in DOMAIN alerts
       THEN /\ gui' = [pc |-> "update", id |-> alert_id,
                       new_status |-> new_status, origin |-> origin,
                       dlg |-> dlg, s |-> None]
            /\ manual' = manual \cup {alert_id}
            /\ overlap' = IF InFallback(alert_id)
                          THEN Joined(overlap, alert_id, new_status)
                          ELSE overlap
            /\ UNCHANGED unknown_calls
       ELSE /\ unknown_calls < MaxUnknownCalls
            /\ unknown_calls' = unknown_calls + 1
            /\ UNCHANGED <<gui, manual, overlap>>

\* views.py:60-67 AnomalyConfirmationDialog.confirm (button enabled)
DialogConfirm(d) ==
    /\ GuiAt("idle")
    /\ d \in dialogs
    /\ ~d.confirm_disabled
    /\ ManualUpdate(d.alert_id, "confirmed", "confirm", Some(d))
    /\ UNCHANGED <<auto_confirm_timeout, confirmed_times, timer, dialogs, pipe,
                   handed, storeVars, settings_dict, global_sensitivity, user,
                   sourceVars, probe, training, repoVars>>

\* views.py:74-81 AnomalyConfirmationDialog.false_positive
DialogFalsePositive(d) ==
    /\ GuiAt("idle")
    /\ d \in dialogs
    /\ ManualUpdate(d.alert_id, "false_positive", "false_positive", Some(d))
    /\ UNCHANGED <<auto_confirm_timeout, confirmed_times, timer, dialogs, pipe,
                   handed, storeVars, settings_dict, global_sensitivity, user,
                   sourceVars, probe, training, repoVars>>

\* controllers.py:45-46 AnomalyController.acknowledge_alert
AcknowledgeAlert(alert_id) ==
    /\ GuiAt("idle")
    /\ ManualUpdate(alert_id, "acknowledged", "acknowledge", None)
    /\ UNCHANGED <<auto_confirm_timeout, confirmed_times, timer, dialogs, pipe,
                   handed, storeVars, settings_dict, global_sensitivity, user,
                   sourceVars, probe, training, repoVars>>

\* the GUI event loop runs a queued do_confirm: update_alert_status(a,
\* 'confirmed') lines 62-63
RunDoConfirm(a) ==
    /\ GuiAt("idle")
    /\ a \in DOMAIN timer
    /\ timer[a] = "queued"
    /\ alerts' = update_status(alerts, a, "confirmed")
    /\ timer' = [timer EXCEPT ![a] = "done"]
    /\ gui' = [pc |-> "update", id |-> a, new_status |-> "confirmed",
               origin |-> "do_confirm", dlg |-> None, s |-> None]
    /\ UNCHANGED <<auto_confirm_timeout, confirmed_times, dialogs, pipe,
                   handed, storeVars, settings_dict, global_sensitivity, user,
                   manual, unknown_calls, overlap,
                   sourceVars, probe, training, repoVars>>

\* app.py:160-166 trigger_retraining: the global sensitivity afterwards
trigger_retraining(prepared, role, global) ==
    LET historical == get_historical_data(prepared, TimeMin, TimeMax)
        Mine(d) == filter_by_role(role, d.data_type)
    IN  train_model(SelectSeq(historical, Mine), global)

\* variant: marking a false positive removes the anomaly from the store
GuiUpdateFinish_RemovesAnomaly ==
    /\ GuiAt("update")
    /\ confirmed_times' =
            update_confirmed_times(confirmed_times, gui.id, gui.new_status)
    /\ global_sensitivity' =
            IF gui.origin = "false_positive"
            THEN trigger_retraining(prepared_data, user.role, global_sensitivity)
            ELSE global_sensitivity
    /\ anomalies' =
            IF gui.origin = "false_positive"
            THEN LET Others(a) == a.anomaly_id # alerts[gui.id].anomaly_id
                 IN  SelectSeq(anomalies, Others)
            ELSE anomalies
    /\ dialogs' = IF gui.dlg = None THEN dialogs ELSE dialogs \ {gui.dlg[1]}
    /\ gui' = GuiIdle
    /\ overlap' = IF InFallback(gui.id) THEN overlap
                  ELSE Dropped(overlap, gui.id)
    /\ UNCHANGED <<auto_confirm_timeout, alerts, timer, pipe, handed,
                   raw_data, prepared_data, settings_dict, user, manual,
                   unknown_calls, sourceVars, probe, training, repoVars>>

\* update_alert_status lines 64-67 in the GUI thread, then the rest of the
\* handler: false_positive retrains (views.py:82-85), both dialog handlers
\* destroy the dialog (views.py:72, 89)
GuiUpdateFinish ==
    /\ GuiAt("update")
    /\ confirmed_times' =
            update_confirmed_times(confirmed_times, gui.id, gui.new_status)
    /\ global_sensitivity' =
            IF gui.origin = "false_positive"
            THEN trigger_retraining(prepared_data, user.role, global_sensitivity)
            ELSE global_sensitivity
    /\ dialogs' = IF gui.dlg = None THEN dialogs ELSE dialogs \ {gui.dlg[1]}
    /\ gui' = GuiIdle
    /\ overlap' = IF InFallback(gui.id) THEN overlap
                  ELSE Dropped(overlap, gui.id)
    /\ UNCHANGED <<auto_confirm_timeout, alerts, timer, pipe, handed,
                   storeVars, settings_dict, user, manual, unknown_calls,
                   sourceVars, probe, training, repoVars>>

(***************************************************************************)
(* data_sources.py: connect, register_data_listener and the generate_loop  *)
(* thread.  generate_one_data reads current_timestamp at line 38 and       *)
(* executes line 53 (+=) as a load followed by a store.                    *)
(***************************************************************************)
LoopAt(pc) == loop.pc = pc

\* lines 17-20 (the application connects once)
Connect ==
    /\ LoopAt("not_started")
    /\ running' = TRUE
    /\ loop' = [loop EXCEPT !.pc = "test"]
    /\ UNCHANGED <<appVars, listener, current_timestamp, generated_count,
                   chunk, produced, delivered, dropped, registrations, probe, training, repoVars>>

\* lines 25-26; `latest` bounds the number of events generated before the call
RegisterDataListener(callback, max_registrations, latest) ==
    /\ Len(registrations) < max_registrations
    /\ generated_count < latest
    /\ listener' = register_data_listener(listener, callback)
    /\ registrations' = Append(registrations, callback)
    /\ UNCHANGED <<appVars, running, current_timestamp, generated_count, loop,
                   chunk, produced, delivered, dropped, probe, training, repoVars>>

\* app.py:97-98 initialize: connect(), then register the controller
InitializeRegister ==
    /\ running
    /\ RegisterDataListener(ControllerListener, 1, GenerationCap)

\* line 29
LoopTest(max_generated) ==
    /\ LoopAt("test")
    /\ IF LoopCondition(running, generated_count)
       THEN /\ generated_count < max_generated
            /\ loop' = [loop EXCEPT !.pc = "generate"]
       ELSE loop' = [loop EXCEPT !.pc = "done"]
    /\ UNCHANGED <<appVars, listener, running, current_timestamp,
                   generated_count, chunk, produced, delivered, dropped,
                   registrations, probe, training, repoVars>>

\* line 30 -> generate_one_data lines 37-52
LoopGenerate(attrs) ==
    /\ LoopAt("generate")
    /\ loop' = [loop EXCEPT !.pc = "clock_load",
                            !.timestamp = current_timestamp,
                            !.attributes = attrs]
    /\ UNCHANGED <<appVars, listener, running, current_timestamp,
                   generated_count, chunk, produced, delivered, dropped,
                   registrations, probe, training, repoVars>>

\* line 53, the read of self.current_timestamp
LoopClockLoad ==
    /\ LoopAt("clock_load")
    /\ loop' = [loop EXCEPT !.pc = "clock_store", !.tmp = current_timestamp]
    /\ UNCHANGED <<appVars, listener, running, current_timestamp,
                   generated_count, chunk, produced, delivered, dropped,
                   registrations, probe, training, repoVars>>

\* variant: line 53 leaves the clock where it was
LoopClockStore_NoAdvance ==
    /\ LoopAt("clock_store")
    /\ current_timestamp' = loop.tmp
    /\ LET raw == RawData(Len(produced) + 1, loop.timestamp, loop.attributes)
       IN  /\ produced' = Append(produced,
                    Produced(raw.id, raw.timestamp, "loop", listener # None,
                             Len(registrations)))
           /\ loop' = [loop EXCEPT !.pc = "check_listener", !.raw = Some(raw)]
    /\ UNCHANGED <<appVars, listener, running, generated_count, chunk,
                   delivered, dropped, registrations, probe, training, repoVars>>

\* line 53, the write, and line 54
LoopClockStore ==
    /\ LoopAt("clock_store")
    /\ current_timestamp' = loop.tmp + 1
    /\ LET raw == RawData(Len(produced) + 1, loop.timestamp, loop.attributes)
       IN  /\ produced' = Append(produced,
                    Produced(raw.id, raw.timestamp, "loop", listener # None,
                             Len(registrations)))
           /\ loop' = [loop EXCEPT !.pc = "check_listener", !.raw = Some(raw)]
    /\ UNCHANGED <<appVars, listener, running, generated_count, chunk,
                   delivered, dropped, registrations, probe, training, repoVars>>

\* variant: without a listener the event is kept until one is registered
LoopCheckListener_Retry ==
    /\ LoopAt("check_listener")
    /\ IF listener # None
       THEN /\ loop' = [loop EXCEPT !.pc = "call"]
            /\ UNCHANGED dropped
       ELSE /\ loop.raw[1].id \notin dropped
            /\ UNCHANGED loop
            /\ dropped' = dropped \cup {loop.raw[1].id}
    /\ UNCHANGED <<appVars, listener, running, current_timestamp,
                   generated_count, chunk, produced, delivered, registrations,
                   probe, training, repoVars>>

\* line 31: if self.listener
LoopCheckListener ==
    /\ LoopAt("check_listener")
    /\ IF listener # None
       THEN /\ loop' = [loop EXCEPT !.pc = "call"]
            /\ UNCHANGED dropped
       ELSE /\ loop' = [loop EXCEPT !.pc = "increment"]
            /\ dropped' = dropped \cup {loop.raw[1].id}
    /\ UNCHANGED <<appVars, listener, running, current_timestamp,
                   generated_count, chunk, produced, delivered, registrations,
                   probe, training, repoVars>>

\* line 32: self.listener(raw); the controller's callback enters
\* process_new_raw_data (controllers.py:27) in this thread
LoopCall ==
    /\ LoopAt("call")
    /\ LET callee == listener[1]
           raw == loop.raw[1]
       IN  /\ loop' = [loop EXCEPT !.pc = "in_listener", !.callee = Some(callee)]
           /\ delivered' = Append(delivered,
                                  [listener |-> callee, id |-> raw.id])
           /\ IF callee = ControllerListener
              THEN \* the value of preprocess_data(raw), computed once
                   \E prepared \in {preprocess_data(raw)} :
                       /\ pipe' = IF prepared = None
                                  THEN [pipe EXCEPT !.pc = "raised"]
                                  ELSE [pipe EXCEPT !.pc = "store_raw",
                                                    !.raw = Some(raw),
                                                    !.prepared = prepared]
                       /\ handed' = Append(handed, raw)
              ELSE UNCHANGED <<pipe, handed>>
    /\ UNCHANGED <<alertVars, gui, dialogs, storeVars, settings_dict,
                   global_sensitivity, user, manual, unknown_calls, overlap,
                   listener, running, current_timestamp, generated_count,
                   chunk, produced, dropped, registrations, probe, training, repoVars>>

\* the callback returns
CallbackReturn ==
    /\ LoopAt("in_listener")
    /\ loop.callee[1] \in Listeners
    /\ loop' = [loop EXCEPT !.pc = "increment", !.callee = None]
    /\ UNCHANGED <<appVars, listener, running, current_timestamp,
                   generated_count, chunk, produced, delivered, dropped,
                   registrations, probe, training, repoVars>>

\* the callback raises: generate_loop has no try/except, the exception ends
\* the thread
CallbackRaise ==
    /\ LoopAt("in_listener")
    /\ loop.callee[1] \in Listeners
    /\ loop' = [loop EXCEPT !.pc = "dead", !.callee = None]
    /\ UNCHANGED <<appVars, listener, running, current_timestamp,
                   generated_count, chunk, produced, delivered, dropped,
                   registrations, probe, training, repoVars>>

\* process_new_raw_data returns to line 32
PipelineReturn ==
    /\ LoopAt("in_listener")
    /\ loop.callee[1] = ControllerListener
    /\ PipeAt("idle")
    /\ loop' = [loop EXCEPT !.pc = "increment", !.callee = None]
    /\ UNCHANGED <<appVars, listener, running, current_timestamp,
                   generated_count, chunk, produced, delivered, dropped,
                   registrations, probe, training, repoVars>>

\* variant: `if` instead of `while`, the thread ends after one event
LoopIncrement_Once ==
    /\ LoopAt("increment")
    /\ generated_count' = generated_count + 1
    /\ loop' = [loop EXCEPT !.pc = "done", !.raw = None]
    /\ UNCHANGED <<appVars, listener, running, current_timestamp, chunk,
                   produced, delivered, dropped, registrations, probe, training,
                   repoVars>>

\* lines 33-34
LoopIncrement ==
    /\ LoopAt("increment")
    /\ generated_count' = generated_count + 1
    /\ loop' = [loop EXCEPT !.pc = "test", !.raw = None]
    /\ UNCHANGED <<appVars, listener, running, current_timestamp, chunk,
                   produced, delivered, dropped, registrations, probe, training,
                   repoVars>>

(***************************************************************************)
(* data_sources.py: get_next_data_chunk, called from another thread        *)
(***************************************************************************)
\* lines 22-23 -> generate_one_data lines 37-52
GetNextDataChunk(attrs, max_chunks) ==
    /\ chunk.pc = "idle"
    /\ chunk.calls < max_chunks
    /\ chunk' = [chunk EXCEPT !.pc = "clock_load",
                              !.timestamp = current_timestamp,
                              !.attributes = attrs,
                              !.calls = @ + 1]
    /\ UNCHANGED <<appVars, listener, running, current_timestamp,
                   generated_count, loop, produced, delivered, dropped,
                   registrations, probe, training, repoVars>>

\* line 53, the read
ChunkClockLoad ==
    /\ chunk.pc = "clock_load"
    /\ chunk' = [chunk EXCEPT !.pc = "clock_store", !.tmp = current_timestamp]
    /\ UNCHANGED <<appVars, listener, running, current_timestamp,
                   generated_count, loop, produced, delivered, dropped,
                   registrations, probe, training, repoVars>>

\* line 53, the write, and line 54
ChunkClockStore ==
    /\ chunk.pc = "clock_store"
    /\ current_timestamp' = chunk.tmp + 1
    /\ produced' = Append(produced,
            Produced(Len(produced) + 1, chunk.timestamp, "chunk",
                     listener # None, Len(registrations)))
    /\ chunk' = [chunk EXCEPT !.pc = "idle"]
    /\ UNCHANGED <<appVars, listener, running, generated_count, loop,
                   delivered, dropped, registrations, probe, training, repoVars>>

(***************************************************************************)
(* detectors.py: detect called directly; probe keeps the last two calls    *)
(***************************************************************************)
DetectCall(data_type, s, v) ==
    /\ probe' = Append(IF Len(probe) = 2 THEN Tail(probe) ELSE probe,
                       [data_type |-> data_type, s |-> s, v |-> v,
                        sensitivity |-> Some(s), global |-> global_sensitivity,
                        result |-> detect(PreparedData(0, 0, data_type, <<v>>),
                                          DetectionSettings(user.user_id,
                                                            Some(s), <<"any">>),
                                          global_sensitivity, 1)])
    /\ UNCHANGED <<appVars, sourceVars, training, repoVars>>

\* detect called with settings whose sensitivity is None
DetectCallGlobal(data_type, v) ==
    /\ probe' = Append(IF Len(probe) = 2 THEN Tail(probe) ELSE probe,
                       [data_type |-> data_type, s |-> global_sensitivity,
                        v |-> v,
                        sensitivity |-> None, global |-> global_sensitivity,
                        result |-> detect(PreparedData(0, 0, data_type, <<v>>),
                                          DetectionSettings(user.user_id,
                                                            None, <<"any">>),
                                          global_sensitivity, 1)])
    /\ UNCHANGED <<appVars, sourceVars, training, repoVars>>

\* history record of a call that may change the global sensitivity
Trained(op, historical, before, after) ==
    [op |-> op, historical |-> historical, before |-> before, after |-> after]

(***************************************************************************)
(* detectors.py: train_model called directly, and                          *)
(* controllers.py: update_global_sensitivity                               *)
(***************************************************************************)
\* variant: an empty list resets the global sensitivity
TrainModel_EmptyResets(historical) ==
    /\ global_sensitivity' = IF historical = << >> THEN DefaultGlobalSensitivity
                             ELSE train_model(historical, global_sensitivity)
    /\ training' = Append(IF Len(training) = 2 THEN Tail(training) ELSE training,
                          Trained("train_model", historical,
                                  global_sensitivity, global_sensitivity'))
    /\ UNCHANGED <<alertVars, gui, dialogs, pipe, handed, storeVars,
                   settings_dict, user, manual, unknown_calls, overlap,
                   sourceVars, probe, repoVars>>

TrainModel(historical) ==
    /\ global_sensitivity' = train_model(historical, global_sensitivity)
    /\ training' = Append(IF Len(training) = 2 THEN Tail(training) ELSE training,
                          Trained("train_model", historical,
                                  global_sensitivity, global_sensitivity'))
    /\ UNCHANGED <<alertVars, gui, dialogs, pipe, handed, storeVars,
                   settings_dict, user, manual, unknown_calls, overlap,
                   sourceVars, probe, repoVars>>

\* controllers.py:38-39 -> detectors.py:73-74
UpdateGlobalSensitivity(new_sensitivity) ==
    /\ global_sensitivity' = new_sensitivity
    /\ training' = Append(IF Len(training) = 2 THEN Tail(training) ELSE training,
                          Trained("set_global_sensitivity", << >>,
                                  global_sensitivity, global_sensitivity'))
    /\ UNCHANGED <<alertVars, gui, dialogs, pipe, handed, storeVars,
                   settings_dict, user, manual, unknown_calls, overlap,
                   sourceVars, probe, repoVars>>

(***************************************************************************)
(* repositories.py: load_settings and save_settings called directly;       *)
(* repo_calls keeps the last three calls                                   *)
(***************************************************************************)
Recorded(calls, call) ==
    Append(IF Len(calls) = 3 THEN Tail(calls) ELSE calls, call)

\* variant: dict.setdefault, the default is stored when nothing was
LoadSettings_SetDefault(user_id) ==
    /\ settings_dict' =
            save_settings(settings_dict, load_settings(settings_dict, user_id))
    /\ repo_calls' = Recorded(repo_calls,
                              RepoCall("load_settings", user_id,
                                       load_settings(settings_dict, user_id),
                                       settings_dict, settings_dict'))
    /\ UNCHANGED <<alertVars, gui, dialogs, pipe, handed, storeVars,
                   global_sensitivity, user, manual, unknown_calls, overlap,
                   sourceVars, probe, training, settings_file>>

\* repositories.py:14-17
LoadSettings(user_id) ==
    /\ UNCHANGED <<appVars, sourceVars, probe, training, settings_file>>
    /\ repo_calls' = Recorded(repo_calls,
                              RepoCall("load_settings", user_id,
                                       load_settings(settings_dict, user_id),
                                       settings_dict, settings_dict'))

\* repositories.py:19-25
SaveSettings(settings) ==
    /\ settings_dict' = save_settings(settings_dict, settings)
    /\ settings_file' = Some(json_dump(settings_dict'))
    /\ repo_calls' = Recorded(repo_calls,
                              RepoCall("save_settings", settings.user_id,
                                       settings, settings_dict, settings_dict'))
    /\ UNCHANGED <<alertVars, gui, dialogs, pipe, handed, storeVars,
                   global_sensitivity, user, manual, unknown_calls, overlap,
                   sourceVars, probe, training>>

(***************************************************************************)
(* views.py: SettingsView, in the GUI thread                               *)
(***************************************************************************)
\* views.py:568-573 set_sensitivity up to save_user_settings: the settings
\* of the session user are loaded, changed and saved
SetSensitivity(s) ==
    /\ GuiAt("idle")
    /\ LET loaded == load_settings(settings_dict, user.user_id)
           settings == [loaded EXCEPT !.sensitivity = Some(s)]
       IN  /\ settings_dict' = save_settings(settings_dict, settings)
           /\ repo_calls' =
                Recorded(Recorded(repo_calls,
                                  RepoCall("load_settings", user.user_id,
                                           loaded, settings_dict,
                                           settings_dict)),
                         RepoCall("save_settings", user.user_id, settings,
                                  settings_dict, settings_dict'))
    /\ settings_file' = Some(json_dump(settings_dict'))
    /\ gui' = [GuiIdle EXCEPT !.pc = "set_global", !.s = Some(s)]
    /\ UNCHANGED <<alertVars, dialogs, pipe, handed, storeVars,
                   global_sensitivity, user, manual, unknown_calls, overlap,
                   sourceVars, probe, training>>

\* views.py:574 update_global_sensitivity(s)
SetSensitivityGlobal ==
    /\ GuiAt("set_global")
    /\ global_sensitivity' = gui.s[1]
    /\ gui' = GuiIdle
    /\ UNCHANGED <<alertVars, dialogs, pipe, handed, storeVars, settings_dict,
                   user, manual, unknown_calls, overlap,
                   sourceVars, probe, training, repoVars>>

\* views.py:578-580 tune_sensitivity
TuneSensitivity ==
    /\ GuiAt("idle")
    /\ global_sensitivity' =
            trigger_retraining(prepared_data, user.role, global_sensitivity)
    /\ UNCHANGED <<alertVars, gui, dialogs, pipe, handed, storeVars,
                   settings_dict, user, manual, unknown_calls, overlap,
                   sourceVars, probe, training, repoVars>>

(***************************************************************************)
(* Specification                                                           *)
(***************************************************************************)
AlertIds == 1..MaxAlerts

Pipeline(inputs, max) ==
    \/ \E attrs \in inputs : ProcessNewRawData(attrs, max)
    \/ StoreRawData
    \/ StorePreparedData
    \/ Detect
    \/ StoreAnomaly
    \/ SendAlert

Timers ==
    \E a \in AlertIds :
        \/ TimerWake(a)
        \/ TimerSchedule(a)
        \/ TimerFallback(a)
        \/ TimerFallbackFinish(a)

Gui ==
    \/ \E i \in 1..MaxEvents : DialogOpen(i)
    \/ DialogSendAlert
    \/ \E d \in dialogs : DialogClose(d)
    \/ \E d \in dialogs : DialogConfirm(d)
    \/ \E d \in dialogs : DialogFalsePositive(d)
    \/ \E a \in AlertIds \cup {UnknownAlertId} : AcknowledgeAlert(a)
    \/ \E a \in AlertIds : RunDoConfirm(a)
    \/ GuiUpdateFinish

Next == Pipeline(AlertInputs, MaxEvents) \/ Timers \/ Gui

Spec == Init /\ [][Next]_vars

\* the pipeline alone, on every kind of input
NextPipeline == Pipeline(RawInputs, MaxPipelineEvents)

SpecPipeline == Init /\ [][NextPipeline]_vars


(***************************************************************************)
(* Fairness: every started auto_confirm thread keeps running, the GUI      *)
(* thread finishes the handler it is in, and the GUI event loop eventually *)
(* runs every callback queued with after()                                 *)
(***************************************************************************)
TimerThread(a) ==
    TimerWake(a) \/ TimerSchedule(a) \/ TimerFallback(a) \/ TimerFallbackFinish(a)

Fairness ==
    /\ \A a \in AlertIds : WF_vars(TimerThread(a)) /\ SF_vars(RunDoConfirm(a))
    /\ WF_vars(GuiUpdateFinish \/ DialogSendAlert)

\* a session with auto-confirm enabled, as app.py constructs it
LiveInit == Init /\ auto_confirm_timeout = Some(120) /\ user.role = "equipment"

LiveInputs ==
    { TA(<<"1">>, "temperature", <<"1", "8", "0">>) }

NextLive == Pipeline(LiveInputs, MaxLiveEvents) \/ Timers \/ Gui

LiveSpec == LiveInit /\ [][NextLive]_vars /\ Fairness

(***************************************************************************)
(* The data source                                                         *)
(***************************************************************************)
\* the payload of the events when the callbacks do not read it
SourceInputs == { TA(<<"1">>, "temperature", <<"4", "5", ".", "5">>) }

GenerateLoop(inputs, max_generated) ==
    \/ LoopTest(max_generated)
    \/ \E attrs \in inputs : LoopGenerate(attrs)
    \/ LoopClockLoad
    \/ LoopClockStore
    \/ LoopCheckListener
    \/ LoopCall
    \/ LoopIncrement

ChunkCaller(inputs, max_chunks) ==
    \/ \E attrs \in inputs : GetNextDataChunk(attrs, max_chunks)
    \/ ChunkClockLoad
    \/ ChunkClockStore

\* the data source with callbacks that return or raise, and a concurrent
\* caller of get_next_data_chunk
NextSource ==
    \/ Connect
    \/ \E cb \in Listeners :
            RegisterDataListener(cb, MaxRegistrations, GenerationCap)
    \/ GenerateLoop(SourceInputs, MaxGenerated)
    \/ CallbackReturn
    \/ CallbackRaise
    \/ ChunkCaller(SourceInputs, MaxChunks)

SpecSource == LiveInit /\ [][NextSource]_vars

\* the application: initialize() wires the data source to the controller,
\* whose pipeline then runs in the generate_loop thread
PipelineSteps ==
    \/ StoreRawData
    \/ StorePreparedData
    \/ Detect
    \/ StoreAnomaly
    \/ SendAlert

NextApp ==
    \/ Connect
    \/ InitializeRegister
    \/ GenerateLoop(AlertInputs, MaxGenerated)
    \/ PipelineSteps
    \/ PipelineReturn

SpecApp == Init /\ [][NextApp]_vars

\* one run of the loop up to the cap (no bound below it), with a callback
\* registered before the MaxUnheard-th event
NextCap ==
    \/ Connect
    \/ RegisterDataListener("A", 1, MaxUnheard)
    \/ GenerateLoop(SourceInputs, GenerationCap + 1)
    \/ CallbackReturn
    \/ CallbackRaise

SpecCap == LiveInit /\ [][NextCap]_vars

(***************************************************************************)
(* The settings repository, called directly                                *)
(***************************************************************************)
RepoUsers == {"specialist", "guest"}

\* settings passed to save_settings: a sensitivity inside [0, 1], one above
\* and one below
SettingsInputs ==
    { DetectionSettings(u, Some(x[1]), x[2]) :
        u \in RepoUsers,
        x \in { <<(<<1, 4>>), (<<"any">>)>>,
                <<(<<3, 2>>), (<<"sensor">>)>>,
                <<(<<-1, 2>>), (<<"any">>)>> } }

\* save_settings(load_settings(u)): the settings the last call returned
LastLoaded ==
    IF repo_calls # << >> /\ repo_calls[Len(repo_calls)].op = "load_settings"
    THEN {repo_calls[Len(repo_calls)].settings}
    ELSE {}

NextRepo ==
    \/ \E u \in RepoUsers : LoadSettings(u)
    \/ \E x \in SettingsInputs \cup LastLoaded : SaveSettings(x)

SpecRepo == LiveInit /\ [][NextRepo]_vars

(***************************************************************************)
(* The pipeline while the settings view changes the sensitivity            *)
(***************************************************************************)
\* the positions of the Scale (from_=0.0, to=1.0)
ScaleValues == { <<0, 1>>, <<1, 1>> }

\* sensor events flagged at sensitivity 1 only, at 0.5 and above, always
SettingsEvents ==
    { TA(<<"1">>, "temperature", <<"4", "5", ".", "5">>),
      TA(<<"1">>, "temperature", <<"1", "0", "0">>),
      TA(<<"1">>, "temperature", <<"1", "8", "0">>) }

SettingsView ==
    \/ \E s \in ScaleValues : SetSensitivity(s)
    \/ SetSensitivityGlobal
    \/ TuneSensitivity

NextSettings == Pipeline(SettingsEvents, MaxSettingsEvents) \/ SettingsView

SpecSettings == LiveInit /\ [][NextSettings]_vars

(***************************************************************************)
(* The application up to the cap: the loop thread runs the pipeline, the   *)
(* timers and the GUI go on after it.  Only the last MaxLateAnomalies      *)
(* events may be anomalous, the earlier ones are normal readings.          *)
(***************************************************************************)
TermInputs(count) ==
    IF count >= GenerationCap - MaxLateAnomalies
    THEN LiveInputs \cup SourceInputs
    ELSE SourceInputs

\* the generate_loop thread, with the listener calls it makes
LoopThread ==
    \/ LoopTest(GenerationCap + 1)
    \/ \E attrs \in TermInputs(generated_count) : LoopGenerate(attrs)
    \/ LoopClockLoad
    \/ LoopClockStore
    \/ LoopCheckListener
    \/ LoopCall
    \/ LoopIncrement
    \/ PipelineSteps
    \/ PipelineReturn

NextTerm ==
    \/ Connect
    \/ (running /\ RegisterDataListener(ControllerListener, 1, MaxUnheard))
    \/ LoopThread
    \/ Timers
    \/ \E a \in DOMAIN alerts : AcknowledgeAlert(a)
    \/ \E a \in AlertIds : RunDoConfirm(a)
    \/ GuiUpdateFinish

\* the loop thread keeps running (it only sleeps one second per event), and
\* so do the auto_confirm threads and the GUI thread, as in Fairness; the
\* threads of all alerts are taken together, each makes finitely many steps
TermFairness ==
    /\ WF_vars(LoopThread)
    /\ WF_vars(Timers)
    /\ SF_vars(\E a \in AlertIds : RunDoConfirm(a))
    /\ WF_vars(GuiUpdateFinish)

SpecTerm == LiveInit /\ [][NextTerm]_vars /\ TermFairness

(***************************************************************************)
(* detect as a function of (data_type, sensitivity, feature value)         *)
(***************************************************************************)
ProbeSensitivities == { <<0, 1>>, <<1, 4>>, <<1, 2>>, <<1, 1>> }

\* feature values around the thresholds of the sensitivities above
ProbeValues(data_type) ==
    CASE data_type = "sensor" ->
            { <<15, 1>>, <<16, 1>>, <<90, 1>>, <<181, 2>>, <<255, 2>>,
              <<128, 1>>, <<135, 1>>, <<180, 1>>, <<165, 1>>, <<166, 1>> }
      [] data_type = "traffic" ->
            { <<100, 1>>, <<101, 1>>, <<600, 1>>, <<700, 1>>, <<850, 1>>,
              <<851, 1>>, <<1100, 1>>, <<1101, 1>> }
      [] data_type = "transaction" ->
            { <<-1, 1>>, <<0, 1>>, <<1, 2>>, <<1, 1>>, <<2, 1>>, <<4, 1>>,
              <<6, 1>>, <<8, 1>>, <<11, 1>>, <<21, 1>>, <<22, 1>>, <<23, 2>> }

NextDetect ==
    \E data_type \in {"sensor", "traffic", "transaction"} :
        \E s \in ProbeSensitivities :
            \E v \in ProbeValues(data_type) : DetectCall(data_type, s, v)

SpecDetect == LiveInit /\ [][NextDetect]_vars

(***************************************************************************)
(* train_model as a function of the historical set and of the global       *)
(* sensitivity before the call                                             *)
(***************************************************************************)
\* a list of prepared records of one category with the given feature values
Historical(data_type, values) ==
    [i \in 1..Len(values) |-> PreparedData(i, i - 1, data_type, <<values[i]>>)]

HistoricalSets ==
    { << >>,
      \* ten sensor records, five of them above 90
      Historical("sensor",
                 << <<180, 1>>, <<45, 1>>, <<180, 1>>, <<45, 1>>, <<180, 1>>,
                    <<45, 1>>, <<180, 1>>, <<45, 1>>, <<180, 1>>, <<45, 1>> >>),
      \* ten transaction records, five of them above 11
      Historical("transaction",
                 << <<12, 1>>, <<9, 1>>, <<12, 1>>, <<9, 1>>, <<12, 1>>,
                    <<9, 1>>, <<12, 1>>, <<9, 1>>, <<12, 1>>, <<9, 1>> >>),
      \* none above 90
      Historical("sensor", << <<50, 1>>, <<50, 1>> >>),
      Historical("traffic", << <<700, 1>>, <<100, 1>>, <<50, 1>> >>),
      Historical("sensor", << <<100, 1>> >>) }

\* arguments of update_global_sensitivity
GlobalValues == { <<1, 4>>, <<1, 1>> }

NextTrain ==
    \/ \E historical \in HistoricalSets : TrainModel(historical)
    \/ \E s \in GlobalValues : UpdateGlobalSensitivity(s)

SpecTrain == LiveInit /\ [][NextTrain]_vars

(***************************************************************************)
(* detect with and without a sensitivity in the settings, under a global   *)
(* sensitivity that changes                                                *)
(***************************************************************************)
SettingsSensitivities == { <<0, 1>>, <<1, 1>> }

SensitivityValues(data_type) ==
    CASE data_type = "sensor" -> { <<60, 1>>, <<128, 1>> }
      [] data_type = "traffic" -> { <<400, 1>>, <<851, 1>> }
      [] data_type = "transaction" -> { <<3, 1>>, <<9, 1>> }

NextSensitivity ==
    \/ \E s \in GlobalValues : UpdateGlobalSensitivity(s)
    \/ \E data_type \in {"sensor", "traffic", "transaction"} :
        \E v \in SensitivityValues(data_type) :
            \/ \E s \in SettingsSensitivities : DetectCall(data_type, s, v)
            \/ DetectCallGlobal(data_type, v)

SpecSensitivity == LiveInit /\ [][NextSensitivity]_vars

(***************************************************************************)
(* Properties of the alert lifecycle                                       *)
(***************************************************************************)
StatusOf(a) == alerts[a].status

\* the step in which the do_confirm of alert a's timer writes the status
\* (line 63), in the GUI thread or in the timer thread
TimerWrites(a) ==
    /\ a \in DOMAIN timer
    /\ \/ timer[a] = "queued" /\ timer'[a] = "done"
       \/ timer[a] = "checked" /\ timer'[a] = "fallback"

\* C1: once a manual transition has been applied to an alert, its
\* auto-confirm timer never afterwards sets the alert's status to confirmed.
C1_TimerNeverOverwritesManual ==
    [][\A a \in AlertIds :
          (a \in manual /\ TimerWrites(a)) => alerts'[a].status # "confirmed"]_vars

AllowedTransitions ==
    { <<"open", "confirmed">>, <<"open", "false_positive">>,
      <<"open", "acknowledged">>, <<"confirmed", "acknowledged">> }

\* C2: every change of an alert's status is open->confirmed,
\* open->false_positive, open->acknowledged or confirmed->acknowledged.
C2_ForwardTransitionsOnly ==
    [][\A a \in DOMAIN alerts :
          alerts'[a].status # alerts[a].status
            => <<alerts[a].status, alerts'[a].status>> \in AllowedTransitions]_vars

\* C3: with auto_confirm_timeout 0 or None no timer is ever started and an
\* alert that received no manual transition is open.
C3_DisabledStaysOpen ==
    auto_confirm_timeout \in {None, Some(0)}
        => /\ DOMAIN timer = {}
           /\ \A a \in DOMAIN alerts : a \notin manual => StatusOf(a) = "open"

C3_Witness ==
    /\ auto_confirm_timeout = Some(0)
    /\ pipe.pc = "idle"
    /\ \E a \in DOMAIN alerts : a \notin manual /\ StatusOf(a) = "open"

\* C4: with auto-confirm enabled, every raised alert eventually is confirmed
\* or receives a manual transition.
C4_EventuallyConfirmed ==
    \A a \in AlertIds :
        (a \in DOMAIN alerts /\ auto_confirm_timeout \notin {None, Some(0)})
            ~> (a \in DOMAIN alerts
                    /\ (StatusOf(a) = "confirmed" \/ a \in manual))

C4_Witness ==
    \E a \in DOMAIN alerts :
        /\ a \notin manual
        /\ StatusOf(a) = "confirmed"
        /\ a \in confirmed_times
        /\ timer[a] = "done"

\* no update_alert_status execution for alert a is between its two halves
Quiescent(a) == ~(gui.pc = "update" /\ gui.id = a) /\ ~InFallback(a)

\* C5: when no update_alert_status call is in progress, an alert id is a key
\* of confirmed_times iff the alert's status is confirmed.
C5_ConfirmedTimesIffConfirmed ==
    \A a \in DOMAIN alerts :
        Quiescent(a) => (a \in confirmed_times <=> StatusOf(a) = "confirmed")

\* status and confirmed_times entry of alert a after update_alert_status(a, s)
\* followed by update_alert_status(a, t)
SeqOutcome(a, s, t) ==
    LET als == update_status(update_status(alerts, a, s), a, t)
        times == update_confirmed_times(
                    update_confirmed_times(confirmed_times, a, s), a, t)
    IN  <<als[a].status, a \in times>>

\* C6: when two overlapping update_alert_status executions for one alert
\* (the timer's fallback do_confirm and a manual transition) have both
\* completed, the alert's status and confirmed_times entry are those of
\* running the two one after the other in some order.
C6_Linearizable ==
    [][\A a \in DOMAIN overlap :
          (a \notin DOMAIN overlap' /\ overlap[a] # <<"many">>)
            => <<alerts'[a].status, a \in confirmed_times'>> \in
                  { SeqOutcome(a, "confirmed", overlap[a][1]),
                    SeqOutcome(a, overlap[a][1], "confirmed") }]_vars

\* C7: at most one alert exists per anomaly id.
C7_OneAlertPerAnomaly ==
    \A a, b \in DOMAIN alerts :
        alerts[a].anomaly_id = alerts[b].anomaly_id => a = b

\* C8: update_alert_status with an alert id that is not in the alert map
\* changes neither the alert map nor confirmed_times.
C8_UnknownIdIsNoOp ==
    [][unknown_calls' # unknown_calls
          => /\ alerts' = alerts
             /\ confirmed_times' = confirmed_times
             /\ gui' = gui]_vars

C8_Witness ==
    /\ unknown_calls > 0
    /\ \E a \in DOMAIN alerts : StatusOf(a) = "confirmed" /\ a \in confirmed_times

(***************************************************************************)
(* Properties of the pipeline                                              *)
(***************************************************************************)
Range(seq) == {seq[i] : i \in 1..Len(seq)}

\* nothing derived from the raw event with this id is stored
NothingPersisted(id) ==
    /\ \A r \in Range(raw_data) : r.id # id
    /\ \A d \in Range(prepared_data) : d.id # id
    /\ \A an \in Range(anomalies) : an.data_id # id
    /\ \A a \in DOMAIN alerts : \A an \in Range(anomalies) :
            alerts[a].anomaly_id = an.anomaly_id => an.data_id # id

KnownTypes == { <<"1">>, <<"2">>, <<"3">> }

BadType(raw) == DictGet(raw.attributes, "type", EmptyStr) \notin KnownTypes

NumericField(raw) ==
    CASE raw.attributes["type"] = <<"1">> -> "temperature"
      [] raw.attributes["type"] = <<"2">> -> "time_of_day"
      [] raw.attributes["type"] = <<"3">> -> "volume"

BadNumber(raw) ==
    /\ ~BadType(raw)
    /\ \/ NumericField(raw) \notin DOMAIN raw.attributes
       \/ ParseFloat(raw.attributes[NumericField(raw)]) = None

\* C9: for an event whose type is absent or not "1", "2", "3",
\* process_new_raw_data fails and nothing of the event is stored.
C9_UnknownTypeStoresNothing ==
    \A i \in 1..Len(handed) :
        BadType(handed[i])
            => /\ pipe.pc = "raised"
               /\ NothingPersisted(handed[i].id)
               /\ Len(raw_data) = i - 1
               /\ Len(prepared_data) = i - 1

C9_Witness ==
    /\ pipe.pc = "raised"
    /\ raw_data # << >>
    /\ anomalies # << >>
    /\ BadType(handed[Len(handed)])

\* C10: for an event of type "1", "2", "3" whose numeric attribute is missing
\* or unparseable, nothing of the event is stored.
C10_BadNumberStoresNothing ==
    \A i \in 1..Len(handed) :
        BadNumber(handed[i]) => NothingPersisted(handed[i].id)


(***************************************************************************)
(* Properties of the pipeline's error handling and of the data source      *)
(***************************************************************************)
\* C11: a failure of the extraction inside process_new_raw_data does not
\* propagate as an error to the caller, so that later events are processed.
C11_FailureIsolated == ~PipeAt("raised")

\* C12: a failure of the listener callback does not end the generation loop.
C12_LoopSurvivesListenerFailure == ~LoopAt("dead")

\* C13: in every state, each stored anomaly has the data_id of a record
\* already in raw_data and of a record already in prepared_data.
C13_AnomalyHasStoredData ==
    \A i \in 1..Len(anomalies) :
        /\ \E j \in 1..Len(raw_data) : raw_data[j].id = anomalies[i].data_id
        /\ \E j \in 1..Len(prepared_data) :
                prepared_data[j].id = anomalies[i].data_id

C13_Witness ==
    /\ PipeAt("send_alert")
    /\ Len(anomalies) = 2
    /\ anomalies[1].data_id # anomalies[2].data_id


\* C14: in a run started by connect(), generated_count never exceeds 300 and
\* the loop calls the listener at most 300 times.
C14_AtMostCapEvents ==
    /\ generated_count <= 300
    /\ Len(delivered) <= 300

C14_Witness ==
    /\ LoopAt("done")
    /\ generated_count = 300
    /\ Len(delivered) = 300

LoopEvents == {i \in 1..Len(produced) : produced[i].by = "loop"}

DeliveredIds == {delivered[j].id : j \in 1..Len(delivered)}

\* C15 as stated: an event the loop generated while no listener was
\* registered is never delivered to a listener.
C15_UnheardNeverDelivered ==
    \A i \in LoopEvents : ~produced[i].heard => produced[i].id \notin DeliveredIds

\* C15, amended: an event for which the loop finds no listener at line 31 is
\* never delivered to a listener, it is counted in generated_count, and the
\* clock has moved past its timestamp.
C15_DroppedNeverDelivered ==
    /\ dropped \cap DeliveredIds = {}
    /\ Cardinality(dropped) + Len(delivered)
            = generated_count
              + (IF loop.pc \in {"in_listener", "increment"} THEN 1 ELSE 0)
    /\ \A i \in LoopEvents :
            produced[i].id \in dropped => produced[i].timestamp < current_timestamp

C15_Witness ==
    /\ LoopAt("test")
    /\ dropped # {}
    /\ Len(delivered) >= 1
    /\ generated_count = 2

\* C16: an event generated after the r-th registration is delivered only to
\* the callback of that registration or of a later one, never to a callback
\* replaced before, and no event is delivered twice.
C16_LastRegistrationWins ==
    /\ \A j \in 1..Len(delivered) :
            LET r == produced[delivered[j].id].registered
            IN  r >= 1 => delivered[j].listener
                            \in {registrations[k] : k \in r..Len(registrations)}
    /\ \A i, j \in 1..Len(delivered) :
            delivered[i].id = delivered[j].id => i = j

C16_Witness ==
    /\ Len(registrations) = 2
    /\ registrations[1] = "A"
    /\ registrations[2] = "B"
    /\ \E j \in 1..Len(delivered) :
            /\ produced[delivered[j].id].registered = 2
            /\ delivered[j].listener = "B"
    /\ \E j \in 1..Len(delivered) : delivered[j].listener = "A"

\* C17: the n-th event returned by generate_one_data has the timestamp
\* 2025-01-01 00:00 plus n - 1 hours, whichever thread produced it.
C17_HourlyClock ==
    \A i \in 1..Len(produced) : produced[i].timestamp = i - 1

\* C18: events reach process_new_raw_data in generation order; when the
\* events handed over have been processed, raw_data and prepared_data hold
\* one record each per event, the i-th records have the same id, and the
\* timestamps increase strictly with the index.
C18_StoreKeepsGenerationOrder ==
    /\ \A i, j \in 1..Len(handed) : i < j => handed[i].id < handed[j].id
    /\ PipeAt("idle") => /\ Len(raw_data) = Len(handed)
                         /\ Len(prepared_data) = Len(handed)
    /\ \A i \in 1..Len(prepared_data) :
            /\ i <= Len(raw_data)
            /\ raw_data[i].id = prepared_data[i].id
            /\ raw_data[i].id = handed[i].id
    /\ \A i, j \in 1..Len(raw_data) :
            i < j => raw_data[i].timestamp < raw_data[j].timestamp
    /\ \A i, j \in 1..Len(prepared_data) :
            i < j => prepared_data[i].timestamp < prepared_data[j].timestamp

C18_Witness ==
    /\ PipeAt("idle")
    /\ LoopAt("test")
    /\ Len(raw_data) = 2
    /\ Len(prepared_data) = 2


(***************************************************************************)
(* Properties of detect, stated in integer arithmetic on the numerators    *)
(* and denominators of s = s[1]/s[2], v = v[1]/v[2]                        *)
(***************************************************************************)
ThresholdFactor(data_type) == IF data_type = "sensor" THEN 150 ELSE 1000

\* v > (1.1 - s) * k
AboveThreshold(v, s, k) ==
    10 * v[1] * s[2] > (11 * s[2] - 10 * s[1]) * k * v[2]

\* score = v / ((1.1 - s) * k) * 100
ScoreIsRatio(score, v, s, k) ==
    score[1] * v[2] * (11 * s[2] - 10 * s[1]) * k
        = score[2] * 1000 * v[1] * s[2]

WithinBounds(v, s) ==
    /\ 8 * s[1] * v[2] <= v[1] * s[2]
    /\ v[1] * s[2] <= (22 * s[1] + (s[2] - 2 * s[1])) * v[2]

\* C20: on a transaction record detect returns no anomaly whenever
\* lower <= v <= upper, the two bounds included.
C20_TransactionInRange ==
    \A i \in 1..Len(probe) :
        (probe[i].data_type = "transaction" /\ WithinBounds(probe[i].v, probe[i].s))
            => probe[i].result = None

C20_Witness ==
    /\ Len(probe) = 2
    /\ probe[1].data_type = "transaction" /\ probe[2].data_type = "transaction"
    /\ probe[1].s = <<1, 2>> /\ probe[2].s = <<1, 2>>
    /\ probe[1].v = <<4, 1>>
    /\ probe[2].v = <<11, 1>>
    /\ probe[1].result = None
    /\ probe[2].result = None


\* the score the transaction rule prescribes outside the band, as <<n, d>>
\* with d > 0: lower / v * 100 below the band (200 at v = 0), v / upper * 100
\* above it
PrescribedTxScore(v, s) ==
    IF v[1] * s[2] < 8 * s[1] * v[2]
    THEN IF v[1] = 0 THEN <<200, 1>>
         ELSE IF v[1] > 0 THEN <<800 * s[1] * v[2], s[2] * v[1]>>
         ELSE <<-(800 * s[1] * v[2]), -(s[2] * v[1])>>
    ELSE <<100 * v[1] * s[2], v[2] * (22 * s[1] + (s[2] - 2 * s[1]))>>

\* C21: for a transaction record outside the band the score is
\* lower / v * 100 below the band (negative v included, 200 at v = 0) and
\* v / upper * 100 above it, and an anomaly is emitted iff the score exceeds
\* 100.
C21_TransactionScore ==
    \A i \in 1..Len(probe) :
        LET c == probe[i]
            prescribed == PrescribedTxScore(c.v, c.s)
        IN  (c.data_type = "transaction" /\ ~WithinBounds(c.v, c.s))
                => /\ (c.result # None) <=> prescribed[1] > 100 * prescribed[2]
                   /\ c.result # None
                        => c.result[1].score[1] * prescribed[2]
                             = prescribed[1] * c.result[1].score[2]

\* C22: every anomaly returned by detect has severity high if its score is
\* above 150 and medium otherwise, 150 included.
C22_SeverityFromScore ==
    \A i \in 1..Len(probe) :
        probe[i].result # None
            => LET a == probe[i].result[1]
               IN  a.severity = IF a.score[1] > 150 * a.score[2]
                                THEN "high" ELSE "medium"

C22_Witness ==
    /\ Len(probe) = 2
    /\ probe[1].result # None
    /\ probe[1].result[1].score = <<150, 1>>
    /\ probe[1].result[1].severity = "medium"
    /\ probe[2].result # None
    /\ probe[2].data_type = "transaction"
    /\ probe[2].result[1].severity = "high"


\* whether the rules flag value v of the category at sensitivity s (v >= 0)
FlaggedAt(data_type, v, s) ==
    IF data_type = "transaction" THEN ~WithinBounds(v, s)
    ELSE AboveThreshold(v, s, ThresholdFactor(data_type))

\* C23: detect decides with settings.sensitivity whenever it is present and
\* with the global sensitivity only when it is None; the global sensitivity
\* is 0.5 until set_global_sensitivity or train_model changes it.
C23_EffectiveSensitivity ==
    /\ \A i \in 1..Len(probe) :
            LET c == probe[i]
                effective == IF c.sensitivity # None THEN c.sensitivity[1]
                             ELSE c.global
            IN  (c.result # None) <=> FlaggedAt(c.data_type, c.v, effective)
    /\ training = << >> => global_sensitivity = <<1, 2>>

C23_Witness ==
    /\ Len(probe) = 2
    /\ global_sensitivity = <<1, 1>>
    /\ probe[1].data_type = "sensor" /\ probe[2].data_type = "sensor"
    /\ probe[1].v = <<60, 1>> /\ probe[2].v = <<60, 1>>
    /\ probe[1].sensitivity = Some(<<0, 1>>)
    /\ probe[1].global = <<1, 1>>
    /\ probe[1].result = None
    /\ probe[2].sensitivity = None
    /\ probe[2].result # None


(***************************************************************************)
(* Properties of train_model                                               *)
(***************************************************************************)
\* the number of records of the list flagged at sensitivity 1/2
FlaggedAtHalf(historical) ==
    Cardinality({j \in 1..Len(historical) :
        FlaggedAt(historical[j].data_type, historical[j].features[1], <<1, 2>>)})

Trainings == {i \in 1..Len(training) : training[i].op = "train_model"}

\* 0.4 <= x <= 0.6
NearHalf(x) == ~RatLt(x, <<2, 5>>) /\ ~RatGt(x, <<3, 5>>)

\* C24: after train_model on ten records of which exactly five are flagged at
\* sensitivity 0.5, the global sensitivity is near 0.5.
C24_ConvergesNearHalf ==
    \A i \in Trainings :
        (Len(training[i].historical) = 10
            /\ FlaggedAtHalf(training[i].historical) = 5)
                => NearHalf(training[i].after)

\* C25 as stated: after train_model on a non-empty list of n records, at
\* least floor(n/2) of them are flagged at the new global sensitivity.
C25_CountReachesTarget ==
    \A i \in Trainings :
        training[i].historical # << >>
            => count_anomalies(training[i].historical, training[i].after)
                    >= Len(training[i].historical) \div 2

\* C25, amended: after train_model on a non-empty list of n records, either
\* the new global sensitivity is 0.0 and fewer than floor(n/2) records are
\* flagged at 0.5, or at least floor(n/2) records are flagged at the new
\* global sensitivity.
C25_ZeroOrCountReachesTarget ==
    \A i \in Trainings :
        LET h == training[i].historical
        IN  h # << >>
                => \/ /\ training[i].after = <<0, 1>>
                      /\ FlaggedAtHalf(h) < Len(h) \div 2
                   \/ count_anomalies(h, training[i].after) >= Len(h) \div 2

C25_Witness ==
    /\ Len(training) = 2
    /\ Trainings = {1, 2}
    /\ Len(training[1].historical) = 10
    /\ training[1].after # <<0, 1>>
    /\ Len(training[2].historical) = 2
    /\ training[2].after = <<0, 1>>

\* C26: two successive runs of train_model on the same list leave global
\* sensitivities that differ by at most 2^-20, whatever the value before the
\* first run (the values are multiples of 2^-20).
C26_Idempotent ==
    (Trainings = {1, 2} /\ training[1].historical = training[2].historical)
        => LET a == training[1].after
               b == training[2].after
               D == IF a[2] > b[2] THEN a[2] ELSE b[2]
           IN  Abs(a[1] * (D \div a[2]) - b[1] * (D \div b[2]))
                    * (1048576 \div D) <= 1

C26_Witness ==
    /\ Trainings = {1, 2}
    /\ Len(training[1].historical) = 10
    /\ training[1].historical = training[2].historical
    /\ training[1].before = <<1, 4>>
    /\ training[1].after # training[1].before
    /\ training[2].before = training[1].after

\* C27: train_model on an empty list leaves the global sensitivity unchanged.
C27_EmptyIsNoOp ==
    \A i \in Trainings :
        training[i].historical = << >> => training[i].after = training[i].before

C27_Witness ==
    \E i \in Trainings :
        /\ training[i].historical = << >>
        /\ training[i].before = <<1, 4>>
        /\ global_sensitivity = <<1, 4>>


(***************************************************************************)
(* Properties of the store and of the feature extraction                   *)
(***************************************************************************)
\* the category each role may see
CategoryOfRole(role) ==
    CASE role = "security" -> {"traffic"}
      [] role = "equipment" -> {"sensor"}
      [] role = "fraud" -> {"transaction"}
      [] OTHER -> {}

QueryTimes == {TimeMin, 0, 1, TimeMax}

\* C28: for every role and time range, get_anomalies returns only anomalies
\* detected on a record of the category mapped to the role, within the range.
C28_RoleIsolation ==
    \A role \in {"security", "equipment", "fraud", "admin"} :
        \A start_time, end_time \in QueryTimes :
            LET got == get_anomalies(anomalies, role, start_time, end_time)
            IN  \A i \in 1..Len(got) :
                    /\ \E j \in 1..Len(prepared_data) :
                            /\ prepared_data[j].id = got[i].data_id
                            /\ prepared_data[j].data_type \in CategoryOfRole(role)
                    /\ start_time <= got[i].detection_time
                    /\ got[i].detection_time <= end_time

C28_Witness ==
    /\ Len(anomalies) = 2
    /\ Len(get_anomalies(anomalies, "security", TimeMin, TimeMax)) = 1
    /\ Len(get_anomalies(anomalies, "equipment", TimeMin, TimeMax)) = 1
    /\ Len(get_anomalies(anomalies, "fraud", TimeMin, TimeMax)) = 0

IsPrefix(a, b) == Len(a) <= Len(b) /\ SubSeq(b, 1, Len(a)) = a

ExpectedCategory(type) ==
    CASE type = <<"1">> -> "sensor"
      [] type = <<"2">> -> "transaction"
      [] type = <<"3">> -> "traffic"
      [] OTHER -> "none"

ExpectedAttribute(type) ==
    CASE type = <<"1">> -> "temperature"
      [] type = <<"2">> -> "time_of_day"
      [] type = <<"3">> -> "volume"
      [] OTHER -> "none"

\* the values of the numeric strings that occur in the inputs
ValueOf(str) ==
    CASE str = <<"1", "8", "0">> -> Some(<<180, 1>>)
      [] str = <<"4", "5", ".", "5">> -> Some(<<91, 2>>)
      [] str = <<"2">> -> Some(<<2, 1>>)
      [] str = <<"7", "0", "0">> -> Some(<<700, 1>>)
      [] OTHER -> None

\* C30: the prepared record of a raw record has the category of its
\* discriminant, the raw record's id and timestamp and exactly one feature,
\* the value of the category's attribute; equal attributes give equal
\* category and features.
C30_PreprocessMapping ==
    /\ \A j \in 1..Len(prepared_data) :
            LET p == prepared_data[j]
                r == handed[p.id]
                type == DictGet(r.attributes, "type", EmptyStr)
                attribute == ExpectedAttribute(type)
            IN  /\ p.data_type = ExpectedCategory(type)
                /\ p.id = r.id
                /\ p.timestamp = r.timestamp
                /\ Len(p.features) = 1
                /\ (attribute \in DOMAIN r.attributes
                        /\ ValueOf(r.attributes[attribute]) # None)
                    => p.features[1] = ValueOf(r.attributes[attribute])[1]
    /\ \A j, k \in 1..Len(prepared_data) :
            handed[prepared_data[j].id].attributes
                    = handed[prepared_data[k].id].attributes
                => /\ prepared_data[j].data_type = prepared_data[k].data_type
                   /\ prepared_data[j].features = prepared_data[k].features

C30_Witness ==
    /\ Len(prepared_data) = 2
    /\ prepared_data[1].data_type = "sensor"
    /\ prepared_data[1].features = << <<91, 2>> >>
    /\ prepared_data[2].data_type = "traffic"
    /\ prepared_data[2].features = << <<700, 1>> >>

(***************************************************************************)
(* C31..C40                                                                *)
(***************************************************************************)
Loads == {i \in 1..Len(repo_calls) : repo_calls[i].op = "load_settings"}

Saves == {i \in 1..Len(repo_calls) : repo_calls[i].op = "save_settings"}

\* C31: load_settings(u) for a user id with nothing stored returns
\* sensitivity 0.5 and monitored sources ['any'], and creates no stored
\* entry for u.
C31_DefaultWhenNothingStored ==
    \A i \in Loads :
        LET c == repo_calls[i]
        IN  c.user_id \notin DOMAIN c.before =>
                /\ c.settings.user_id = c.user_id
                /\ c.settings.sensitivity = Some(<<1, 2>>)
                /\ c.settings.monitored_sources = <<"any">>
                /\ c.after = c.before

\* a load for a user with nothing stored while another user has an entry
C31_Witness ==
    \E i \in Loads :
        /\ repo_calls[i].user_id \notin DOMAIN repo_calls[i].before
        /\ repo_calls[i].before # << >>

\* C32: save_settings(load_settings(u)) followed by load_settings(u) yields
\* the settings of the first load; load_settings(x.user_id) right after
\* save_settings(x) returns x, its sensitivity as given even outside [0,1];
\* a save changes the stored settings of no other user.
C32_RoundTrip ==
    /\ \A i \in Loads :
            (/\ i + 2 \in Loads
             /\ i + 1 \in Saves
             /\ repo_calls[i + 1].settings = repo_calls[i].settings
             /\ repo_calls[i + 2].user_id = repo_calls[i].user_id)
            => repo_calls[i + 2].settings = repo_calls[i].settings
    /\ \A i \in Saves :
            (i + 1 \in Loads /\ repo_calls[i + 1].user_id = repo_calls[i].user_id)
            => repo_calls[i + 1].settings = repo_calls[i].settings
    /\ \A i \in Saves :
            LET c == repo_calls[i]
            IN  /\ DOMAIN c.after = DOMAIN c.before \cup {c.user_id}
                /\ \A v \in DOMAIN c.before \ {c.user_id} :
                        c.after[v] = c.before[v]

\* load, save of what was loaded, load again, for a stored sensitivity of
\* 1.5 while the other user has an entry
C32_Witness ==
    /\ Len(repo_calls) = 3
    /\ 1 \in Loads /\ 2 \in Saves /\ 3 \in Loads
    /\ repo_calls[2].settings = repo_calls[1].settings
    /\ repo_calls[3].user_id = repo_calls[1].user_id
    /\ repo_calls[1].settings.sensitivity = Some(<<3, 2>>)
    /\ DOMAIN repo_calls[2].before = RepoUsers

\* the steps in which send_alert is executed, by the pipeline or by the
\* confirmation dialog, and the anomaly it is given
PipelineSends == pipe.pc = "send_alert" /\ pipe'.pc = "idle"

DialogSends == gui.pc = "dialog_send" /\ gui'.pc = "idle"

GivenAnomalyId == IF PipelineSends THEN pipe.anomaly[1].anomaly_id ELSE gui.id

\* C33: each send_alert call adds exactly one alert, under an id no existing
\* alert has, with status open and the anomaly_id of the given anomaly; it
\* changes no existing alert and no entry of confirmed_times, and get_alerts
\* returns the new alert right after the call.
C33_SendAlertAddsOneOpenAlert ==
    [][PipelineSends \/ DialogSends =>
        /\ \E a \in DOMAIN alerts' \ DOMAIN alerts :
                /\ DOMAIN alerts' = DOMAIN alerts \cup {a}
                /\ alerts'[a].status = "open"
                /\ alerts'[a].anomaly_id = GivenAnomalyId
                /\ \E x \in get_alerts(alerts') :
                        /\ x.alert_id = a
                        /\ x.status = "open"
                        /\ x.anomaly_id = GivenAnomalyId
        /\ \A b \in DOMAIN alerts : alerts'[b] = alerts[b]
        /\ confirmed_times' = confirmed_times]_vars

\* a second alert was raised, open, while the first one is confirmed and has
\* its confirmation time
C33_Witness ==
    /\ DOMAIN alerts = {1, 2}
    /\ alerts[1].status = "confirmed"
    /\ alerts[2].status = "open"
    /\ confirmed_times = {1}

\* the step in which process_new_raw_data loads the settings and calls detect
DetectStep == pipe.pc = "detect" /\ pipe'.pc # "detect"

\* the sensitivity last saved for the session user, 0.5 before any save
SessionSaves == {i \in Saves : repo_calls[i].user_id = user.user_id}

LastSavedSensitivity ==
    IF SessionSaves = {} THEN <<1, 2>>
    ELSE LET last == CHOOSE i \in SessionSaves : \A j \in SessionSaves : j <= i
         IN  repo_calls[last].settings.sensitivity[1]

\* C34: every event is evaluated by detect with the sensitivity last saved
\* for the session user before its detect call (0.5 when none was saved),
\* and a save re-evaluates nothing: it leaves the stored anomalies, the
\* alerts and the event in the pipeline as they are.
C34_SettingsReadOnEveryEvent ==
    [][/\ DetectStep =>
            LET d == pipe.prepared[1]
            IN  (pipe'.anomaly # None)
                    <=> FlaggedAt(d.data_type, d.features[1],
                                  LastSavedSensitivity)
       /\ repo_calls' # repo_calls =>
            /\ anomalies' = anomalies
            /\ prepared_data' = prepared_data
            /\ alerts' = alerts
            /\ pipe' = pipe]_vars

\* two events of 45.5 degrees: the one processed before sensitivity 1 was
\* saved raised nothing and still has no anomaly, the one after it has one
C34_Witness ==
    /\ Len(prepared_data) = 2
    /\ prepared_data[1].features = prepared_data[2].features
    /\ prepared_data[1].features[1] = <<91, 2>>
    /\ Len(anomalies) = 1
    /\ anomalies[1].data_id = prepared_data[2].id
    /\ SessionSaves # {}
    /\ LastSavedSensitivity = <<1, 1>>

\* values the global sensitivity takes: the default, the ends of the scale
\* and the two results of train_model
GlobalAlternatives ==
    { <<0, 1>>, <<1, 4>>, <<1, 2>>, <<1, 1>>, <<1048575, 1048576>> }

\* C35: pipeline detection does not depend on the global sensitivity: with
\* the same event and the same stored settings, detect in
\* process_new_raw_data returns the same result under every value of the
\* global sensitivity, and a change of the global sensitivity by the
\* settings view stores no anomaly and raises no alert.
C35_GlobalSensitivityIrrelevant ==
    [][/\ DetectStep =>
            \A g \in GlobalAlternatives :
                pipe'.anomaly =
                    detect(pipe.prepared[1],
                           load_settings(settings_dict, user.user_id), g,
                           Len(anomalies) + 1)
       /\ global_sensitivity' # global_sensitivity =>
            /\ anomalies' = anomalies
            /\ alerts' = alerts
            /\ pipe' = pipe]_vars

\* detect has flagged 45.5 degrees under the stored sensitivity 1 while
\* train_model has moved the global sensitivity to 0, where it is not flagged
C35_Witness ==
    /\ PipeAt("store_anomaly")
    /\ pipe.anomaly[1].data_id = 2
    /\ prepared_data[2].features[1] = <<91, 2>>
    /\ global_sensitivity = <<0, 1>>
    /\ user.user_id \in DOMAIN settings_dict
    /\ settings_dict[user.user_id].sensitivity = Some(<<1, 1>>)
    /\ ~FlaggedAt("sensor", <<91, 2>>, global_sensitivity)

\* the list holds records of the one category only
OnlyOf(historical, data_type) ==
    \A j \in 1..Len(historical) : historical[j].data_type = data_type

\* the number of records of the list the threshold rule flags at s
FlaggedCount(historical, s) ==
    Cardinality({j \in 1..Len(historical) :
        FlaggedAt(historical[j].data_type, historical[j].features[1], s)})

SensitivityGrid ==
    { <<0, 1>>, <<1, 4>>, <<1, 2>>, <<3, 4>>, <<15, 16>>, <<1, 1>> }

\* C36: for a non-empty list of sensor records only, or of traffic records
\* only, the flagged count does not decrease when the sensitivity grows, and
\* train_model leaves the global sensitivity at 0.0 when fewer than
\* floor(n/2) records are flagged at 0.5 and at 1 - 2^-20 otherwise.
C36_TwoOutcomes ==
    \A i \in Trainings :
        LET h == training[i].historical
        IN  (h # << >> /\ (OnlyOf(h, "sensor") \/ OnlyOf(h, "traffic")))
                => /\ \A s1, s2 \in SensitivityGrid :
                        ~RatGt(s1, s2)
                            => FlaggedCount(h, s1) <= FlaggedCount(h, s2)
                   /\ training[i].after =
                        IF FlaggedCount(h, <<1, 2>>) < Len(h) \div 2
                        THEN <<0, 1>>
                        ELSE <<1048575, 1048576>>

\* a sensor list that ended at 0.0 and a traffic list that ended at 1 - 2^-20
C36_Witness ==
    /\ Trainings = {1, 2}
    /\ training[1].historical # << >>
    /\ OnlyOf(training[1].historical, "sensor")
    /\ training[1].after = <<0, 1>>
    /\ training[2].historical # << >>
    /\ OnlyOf(training[2].historical, "traffic")
    /\ training[2].after = <<1048575, 1048576>>

\* C37: in every reachable state, get_anomaly(a.anomaly_id) returns an
\* anomaly for each alert a of the alert map, whether the pipeline or the
\* confirmation dialog raised it.
C37_AlertRefersToStoredAnomaly ==
    \A a \in DOMAIN alerts :
        LET found == get_anomaly(anomalies, alerts[a].anomaly_id)
        IN  found # None /\ found[1].anomaly_id = alerts[a].anomaly_id

\* one alert raised by the dialog and one by the pipeline
C37_Witness ==
    /\ Cardinality(DOMAIN alerts) = 2
    /\ dialogs # {}
    /\ PipeAt("idle")
    /\ Len(anomalies) = 1

\* (1.1 - s) > 0 and 22 s + (1 - 2 s) > 0
DivisorsPositive(s) ==
    /\ 11 * s[2] - 10 * s[1] > 0
    /\ 22 * s[1] + (s[2] - 2 * s[1]) > 0

\* C38: for a sensitivity in [0,1] the divisors are strictly positive and
\* every anomaly detect returns has a score strictly greater than 100, so a
\* transaction value outside [lower, upper] always yields an anomaly.
C38_ScoreAbove100 ==
    \A i \in 1..Len(probe) :
        LET p == probe[i]
        IN  /\ DivisorsPositive(p.s)
            /\ p.result # None => RatGt(p.result[1].score, RatInt(100))
            /\ (p.data_type = "transaction" /\ ~WithinBounds(p.v, p.s))
                    => p.result # None

\* a transaction just above the upper bound (11.5 against 11) is reported
\* with a score between 100 and 110, and one at 0 with 200
C38_Witness ==
    /\ Len(probe) = 2
    /\ probe[1].data_type = "transaction"
    /\ probe[1].v = <<23, 2>>
    /\ probe[1].s = <<1, 2>>
    /\ probe[1].result # None
    /\ RatLt(probe[1].result[1].score, RatInt(110))
    /\ probe[2].data_type = "transaction"
    /\ probe[2].v = <<0, 1>>
    /\ probe[2].s = <<1, 2>>
    /\ probe[2].result # None

\* the category of the record an anomaly was detected on
CategoryOfAnomaly(a) ==
    {prepared_data[j].data_type :
        j \in {k \in 1..Len(prepared_data) : prepared_data[k].id = a.data_id}}

\* C39: get_anomalies(role, start, end) returns exactly the stored anomalies
\* of the category mapped to role with start <= detection_time <= end, in
\* insertion order, and the empty list for a role outside the map.
C39_ExactSelection ==
    \A role \in {"security", "equipment", "fraud", "admin", ""} :
        \A start_time, end_time \in QueryTimes :
            LET Expected(a) ==
                    /\ CategoryOfAnomaly(a) # {}
                    /\ CategoryOfAnomaly(a) \subseteq CategoryOfRole(role)
                    /\ start_time <= a.detection_time
                    /\ a.detection_time <= end_time
            IN  /\ get_anomalies(anomalies, role, start_time, end_time)
                        = SelectSeq(anomalies, Expected)
                /\ role \in {"admin", ""}
                        => get_anomalies(anomalies, role, start_time, end_time)
                                = << >>

\* two sensor anomalies detected at times 0 and 1: each one-point range
\* returns its anomaly, the whole range returns both in insertion order
C39_Witness ==
    /\ Len(anomalies) = 2
    /\ get_anomalies(anomalies, "equipment", 0, 0) = <<anomalies[1]>>
    /\ get_anomalies(anomalies, "equipment", 1, 1) = <<anomalies[2]>>
    /\ get_anomalies(anomalies, "equipment", 0, 1) = anomalies
    /\ get_anomalies(anomalies, "equipment", 1, 0) = << >>

\* the loop has left the while statement at the cap
Terminated == LoopAt("done") /\ generated_count = GenerationCap

\* alert a is open and its auto_confirm thread is in time.sleep
OpenAndAsleep(a) ==
    IF a \in DOMAIN timer
    THEN timer[a] = "sleep" /\ alerts[a].status = "open"
    ELSE FALSE

NoLongerOpen(a) ==
    IF a \in DOMAIN alerts THEN alerts[a].status # "open" ELSE FALSE

\* C40: after connect(), with listener calls that return, the loop
\* eventually stops at generated_count = 300; from then on it produces and
\* delivers nothing; an alert that is open with its timer still asleep
\* still leaves the open status, and acknowledge_alert can still be called
\* on every alert.
C40_LoopTerminates ==
    /\ running ~> Terminated
    /\ [][Terminated =>
            /\ Terminated'
            /\ produced' = produced
            /\ delivered' = delivered
            /\ handed' = handed]_vars
    /\ \A a \in AlertIds :
            (Terminated /\ OpenAndAsleep(a)) ~> NoLongerOpen(a)
    /\ [](\A a \in DOMAIN alerts :
            (Terminated /\ GuiAt("idle")) => ENABLED AcknowledgeAlert(a))

\* the loop has ended after 300 events, the last of which raised an alert
\* that is still open while its timer sleeps
C40_Witness ==
    /\ Terminated
    /\ Len(delivered) = GenerationCap
    /\ \E a \in DOMAIN alerts :
            /\ alerts[a].status = "open"
            /\ timer[a] = "sleep"
            /\ alerts[a].anomaly_id = anomalies[Len(anomalies)].anomaly_id
            /\ anomalies[Len(anomalies)].data_id = GenerationCap

====
